---- MODULE Spec2Model ----
(***************************************************************************)
(* A model of BluePyll: the generic StateMachine with its two lifecycle    *)
(* state kinds, the BluePyllApp record, and the BluePyllController that    *)
(* drives the emulator and the apps over the ADB transport.                *)
(***************************************************************************)
EXTENDS Integers, Sequences, FiniteSets, TLC

(***************************************************************************)
(* Lifecycle states (BluestacksState and AppLifecycleState share names).   *)
(***************************************************************************)
CLOSED == "CLOSED"
LOADING == "LOADING"
READY == "READY"
States == {CLOSED, LOADING, READY}

Kinds == {"BluestacksState", "AppLifecycleState"}

\* BluestacksState.get_transitions()
BluestacksState_get_transitions ==
    [s \in States |->
        CASE s = CLOSED -> {LOADING}
          [] s = LOADING -> {CLOSED, READY}
          [] s = READY -> {CLOSED, LOADING}]

\* AppLifecycleState.get_transitions()
AppLifecycleState_get_transitions ==
    [s \in States |->
        CASE s = CLOSED -> {LOADING}
          [] s = LOADING -> {CLOSED, READY}
          [] s = READY -> {CLOSED, LOADING}]

get_transitions(kind) ==
    IF kind = "BluestacksState"
    THEN BluestacksState_get_transitions
    ELSE AppLifecycleState_get_transitions

(***************************************************************************)
(* StateMachine: handlers.  A handler is a zero-argument callable; the     *)
(* model names two of them, and None stands for "not registered".          *)
(***************************************************************************)
None == "None"
Handlers == {"h1", "h2"}
Slots == {"on_enter", "on_exit"}
NoHandlers == [s \in States |-> [k \in Slots |-> None]]

\* A register_handler that replaces the registration of `state`.
register_handler_Replaces(handlers, state, on_enter, on_exit) ==
    [handlers EXCEPT
        ![state] = [k \in Slots |->
            IF k = "on_enter" THEN on_enter ELSE on_exit]]

\* StateMachine.register_handler(state, on_enter=None, on_exit=None):
\* merges into the registration of `state`.
register_handler(handlers, state, on_enter, on_exit) ==
    [handlers EXCEPT
        ![state] = [k \in Slots |->
            IF k = "on_enter" /\ on_enter # None THEN on_enter
            ELSE IF k = "on_exit" /\ on_exit # None THEN on_exit
            ELSE handlers[state][k]]]

\* A validation that lets a state transition to itself.
IsValidTransition_SelfLoopAllowed(trans, s, target, ignore_validation) ==
    ignore_validation \/ target \in trans[s] \/ target = s

\* A validation that does not honour ignore_validation.
IsValidTransition_OverrideIgnored(trans, s, target, ignore_validation) ==
    target \in trans[s]

\* The validation of StateMachine.transition_to.
IsValidTransition(trans, s, target, ignore_validation) ==
    ignore_validation \/ target \in trans[s]

\* One handler invocation, as the machine's observer sees it: which slot,
\* which callable, and current_state while it ran.
Call(slot, h, at) == [slot |-> slot, handler |-> h, at |-> at]

\* A transition_to that returns the new state instead of the previous one.
transition_to_ReturnsNew(handlers, trans, s, target, ignore_validation, exit_raises, enter_raises) ==
    LET on_exit == handlers[s]["on_exit"]
        on_enter == handlers[target]["on_enter"]
        exit_calls == IF on_exit # None
                      THEN <<Call("on_exit", on_exit, s)>> ELSE <<>>
        enter_calls == IF on_enter # None
                       THEN <<Call("on_enter", on_enter, target)>> ELSE <<>>
    IN  IF ~IsValidTransition(trans, s, target, ignore_validation)
        THEN [state |-> s, outcome |-> "StateError", ret |-> None,
              calls |-> <<>>]
        ELSE IF on_exit # None /\ exit_raises
        THEN [state |-> s, outcome |-> "HandlerError", ret |-> None,
              calls |-> exit_calls]
        ELSE IF on_enter # None /\ enter_raises
        THEN [state |-> target, outcome |-> "HandlerError", ret |-> None,
              calls |-> exit_calls \o enter_calls]
        ELSE [state |-> target, outcome |-> "returned", ret |-> target,
              calls |-> exit_calls \o enter_calls]

\* A transition_to that runs on_enter before it updates current_state.
transition_to_EnterBeforeUpdate(handlers, trans, s, target, ignore_validation, exit_raises, enter_raises) ==
    LET on_exit == handlers[s]["on_exit"]
        on_enter == handlers[target]["on_enter"]
        exit_calls == IF on_exit # None
                      THEN <<Call("on_exit", on_exit, s)>> ELSE <<>>
        enter_calls == IF on_enter # None
                       THEN <<Call("on_enter", on_enter, s)>> ELSE <<>>
    IN  IF ~IsValidTransition(trans, s, target, ignore_validation)
        THEN [state |-> s, outcome |-> "StateError", ret |-> None,
              calls |-> <<>>]
        ELSE IF on_exit # None /\ exit_raises
        THEN [state |-> s, outcome |-> "HandlerError", ret |-> None,
              calls |-> exit_calls]
        ELSE IF on_enter # None /\ enter_raises
        THEN [state |-> target, outcome |-> "HandlerError", ret |-> None,
              calls |-> exit_calls \o enter_calls]
        ELSE [state |-> target, outcome |-> "returned", ret |-> s,
              calls |-> exit_calls \o enter_calls]

\* A transition_to that restores the previous state when on_enter raises.
transition_to_RollsBack(handlers, trans, s, target, ignore_validation, exit_raises, enter_raises) ==
    LET on_exit == handlers[s]["on_exit"]
        on_enter == handlers[target]["on_enter"]
        exit_calls == IF on_exit # None
                      THEN <<Call("on_exit", on_exit, s)>> ELSE <<>>
        enter_calls == IF on_enter # None
                       THEN <<Call("on_enter", on_enter, target)>> ELSE <<>>
    IN  IF ~IsValidTransition(trans, s, target, ignore_validation)
        THEN [state |-> s, outcome |-> "StateError", ret |-> None,
              calls |-> <<>>]
        ELSE IF on_exit # None /\ exit_raises
        THEN [state |-> s, outcome |-> "HandlerError", ret |-> None,
              calls |-> exit_calls]
        ELSE IF on_enter # None /\ enter_raises
        THEN [state |-> s, outcome |-> "HandlerError", ret |-> None,
              calls |-> exit_calls \o enter_calls]
        ELSE [state |-> target, outcome |-> "returned", ret |-> s,
              calls |-> exit_calls \o enter_calls]

\* StateMachine.transition_to(target, ignore_validation) from state s.
\* exit_raises / enter_raises: whether the invoked handler raises.
\* The result: the new current_state, how the call ended, the returned
\* previous state and the handler invocations in order.
transition_to(handlers, trans, s, target, ignore_validation, exit_raises, enter_raises) ==
    LET on_exit == handlers[s]["on_exit"]
        on_enter == handlers[target]["on_enter"]
        exit_calls == IF on_exit # None
                      THEN <<Call("on_exit", on_exit, s)>> ELSE <<>>
        enter_calls == IF on_enter # None
                       THEN <<Call("on_enter", on_enter, target)>> ELSE <<>>
    IN  IF ~IsValidTransition(trans, s, target, ignore_validation)
        THEN [state |-> s, outcome |-> "StateError", ret |-> None,
              calls |-> <<>>]
        ELSE IF on_exit # None /\ exit_raises
        THEN [state |-> s, outcome |-> "HandlerError", ret |-> None,
              calls |-> exit_calls]
        ELSE IF on_enter # None /\ enter_raises
        THEN [state |-> target, outcome |-> "HandlerError", ret |-> None,
              calls |-> exit_calls \o enter_calls]
        ELSE [state |-> target, outcome |-> "returned", ret |-> s,
              calls |-> exit_calls \o enter_calls]

(***************************************************************************)
(* A stand-alone StateMachine, as the unit tests construct it.             *)
(***************************************************************************)
VARIABLES
    sm_kind,        \* which state kind's transition table the machine holds
    current_state,  \* StateMachine.current_state
    state_handlers, \* StateMachine.state_handlers
    sm_last,        \* the last call on the machine and how it ended
    reg_calls       \* the register_handler calls made so far, in order

sm_vars == <<sm_kind, current_state, state_handlers, sm_last, reg_calls>>

MaxReg == 2

SMInit ==
    /\ sm_kind \in Kinds
    /\ current_state \in States
    /\ state_handlers = NoHandlers
    /\ sm_last = [op |-> "init", from |-> None, target |-> None,
                  ignore_validation |-> FALSE, outcome |-> "returned",
                  ret |-> None, calls |-> <<>>]
    /\ reg_calls = <<>>

\* machine.register_handler(state, on_enter, on_exit)
RegisterHandler(state, on_enter, on_exit) ==
    /\ state_handlers' =
           register_handler(state_handlers, state, on_enter, on_exit)
    /\ sm_last' = [op |-> "register_handler", from |-> current_state,
                   target |-> state, ignore_validation |-> FALSE,
                   outcome |-> "returned", ret |-> None, calls |-> <<>>]
    /\ UNCHANGED <<sm_kind, current_state, reg_calls>>

\* The same call, with the sequence of calls kept.
RegisterHandlerLogged(state, on_enter, on_exit) ==
    /\ Len(reg_calls) < MaxReg
    /\ state_handlers' =
           register_handler(state_handlers, state, on_enter, on_exit)
    /\ reg_calls' = Append(reg_calls,
           [state |-> state, on_enter |-> on_enter, on_exit |-> on_exit])
    /\ UNCHANGED <<sm_kind, current_state, sm_last>>

\* machine.transition_to(target, ignore_validation)
TransitionTo(target, ignore_validation, exit_raises, enter_raises) ==
    LET r == transition_to(state_handlers, get_transitions(sm_kind),
                           current_state, target, ignore_validation,
                           exit_raises, enter_raises)
    IN  /\ current_state' = r.state
        /\ sm_last' = [op |-> "transition_to", from |-> current_state,
                       target |-> target,
                       ignore_validation |-> ignore_validation,
                       outcome |-> r.outcome, ret |-> r.ret,
                       calls |-> r.calls]
        /\ UNCHANGED <<sm_kind, state_handlers, reg_calls>>

(***************************************************************************)
(* BluePyllApp: app_name, package_name and its own StateMachine            *)
(* (AppLifecycleState, initially CLOSED, no handlers registered).          *)
(***************************************************************************)
Names == {"TestApp", "OtherApp"}
Packages == {"com.test.app", "com.other.app"}

\* BluePyllApp(app_name, package_name)
BluePyllApp(name, package) ==
    [app_name |-> name, package_name |-> package, state |-> CLOSED]

\* An equality over (app_name, package_name) only.
AppEq_IgnoresState(x, y) ==
    /\ x.app_name = y.app_name
    /\ x.package_name = y.package_name

\* BluePyllApp.__eq__: over (app_name, package_name, current state).
AppEq(x, y) ==
    /\ x.app_name = y.app_name
    /\ x.package_name = y.package_name
    /\ x.state = y.state

\* app.app_state.transition_to(target, ignore_validation): the App's machine
\* has no handlers.
app_transition_to(s, target, ignore_validation) ==
    transition_to(NoHandlers, AppLifecycleState_get_transitions, s, target, ignore_validation, FALSE, FALSE)

VARIABLES
    app1,   \* a BluePyllApp record
    app2,   \* another BluePyllApp record
    cmp     \* the last evaluation of app1 == app2: operands and result

app_vars == <<app1, app2, cmp>>

AppInit ==
    /\ app1 \in {BluePyllApp(n, p) : n \in Names, p \in Packages}
    /\ app2 \in {BluePyllApp(n, p) : n \in Names, p \in Packages}
    /\ cmp = [done |-> FALSE, left |-> app1, right |-> app2, result |-> FALSE]

\* app1.app_state.transition_to(target, ignore_validation)
App1TransitionTo(target, ignore_validation) ==
    LET r == app_transition_to(app1.state, target, ignore_validation)
    IN  /\ app1' = [app1 EXCEPT !.state = r.state]
        /\ UNCHANGED <<app2, cmp>>

\* app2.app_state.transition_to(target, ignore_validation)
App2TransitionTo(target, ignore_validation) ==
    LET r == app_transition_to(app2.state, target, ignore_validation)
    IN  /\ app2' = [app2 EXCEPT !.state = r.state]
        /\ UNCHANGED <<app1, cmp>>

\* app1 == app2
AppCompare ==
    /\ cmp' = [done |-> TRUE, left |-> app1, right |-> app2,
               result |-> AppEq(app1, app2)]
    /\ UNCHANGED <<app1, app2>>

(***************************************************************************)
(* BluePyllController.  The transport (AdbDeviceTcp), the emulator process *)
(* and the screen are the environment: every call into them takes its      *)
(* outcome as an input of the action.                                      *)
(***************************************************************************)
Apps == {"a1", "a2"}

\* The App objects the caller holds: a1 and a2 are distinct objects, with
\* the same name, and the same or different packages.
AppIdentities ==
    { [a \in Apps |-> [app_name |-> "TestApp",
                       package_name |-> IF a = "a1" THEN "com.test.app" ELSE p]]
      : p \in Packages }

ConnectOutcomes == {"ok", "fail", "raise"}  \* connect(): available after it, not available, raises
CloseOutcomes == {"ok", "fail"}             \* close(): not available after it, still available
ShellOutcomes == {"out", "empty", "raise"}  \* shell(): non-empty output, empty output, raises
\* One pass of where()'s loop captures the window: an image, no image (the
\* window is not there), or the capture raises.
CaptureOutcomes == {"image", "no_image", "raise"}

\* is_app_running's default max_retries
AppRunningRetries == 3
\* where()'s default max_retries
WhereRetries == 2
\* BluestacksConstants.DEFAULT_MAX_RETRIES, open_bluestacks' default
DEFAULT_MAX_RETRIES == 10
\* Bounds of the model: timeouts in clock ticks, time one loop iteration
\* takes, length of running_apps.
MaxTimeout == 2
MaxDt == 1
MaxRunning == 2
\* max_retries arguments, and the attempt at which something first happens
MaxPolls == 2
\* times arguments of click()
MaxTimes == 2

VARIABLES
    pc,               \* where the single caller thread is
    frame,            \* locals of the operation in progress
    bluestacks_state, \* controller.bluestacks_state.current_state
    available,        \* the transport's `available`
    running_apps,     \* controller.running_apps
    apps,             \* name and package of each App object
    app_state,        \* app.app_state.current_state of each App object
    last,             \* the last operation: what it did and how it ended
    splash            \* the emulator window shows the loading splash

ctl_vars == <<pc, frame, bluestacks_state, available, running_apps, apps, app_state, last, splash>>

VARIABLES
    element,         \* the BluePyllElement the caller has constructed, if any
    ref_window_size, \* controller._ref_window_size
    ui_last          \* the last call on the element or the property: its arguments and how it ended

ui_vars == <<element, ref_window_size, ui_last>>

vars == <<sm_kind, current_state, state_handlers, sm_last, reg_calls, app1, app2, cmp, pc, frame, bluestacks_state, available, running_apps, apps, app_state, last, splash, element, ref_window_size, ui_last>>

\* retries: where()'s find_ui_retries; tick: the parity of the clock, which
\* every capture advances; path, given, max_retries: the element's image and
\* the arguments of a where() call on it; times: click()'s argument.
NoFrame == [caller |-> None, app |-> None, timeout |-> 0, elapsed |-> 0, retries |-> 0, tick |-> 0, path |-> None, given |-> FALSE, max_retries |-> 0, times |-> 0]

Last(op, app, outcome, exc, ret, events, cmds) ==
    [op |-> op, app |-> app, outcome |-> outcome, exc |-> exc, ret |-> ret,
     events |-> events, cmds |-> cmds]

\* The App object as BluePyllApp.__eq__ reads it, given the apps' states.
AppRecord(st, a) ==
    [app_name |-> apps[a].app_name, package_name |-> apps[a].package_name,
     state |-> st[a]]

\* connect_adb() were it to call connect() also on an available transport.
connect_adb_AlwaysConnects(avail, conn) ==
    [ret |-> "True", available |-> TRUE, raised |-> FALSE, events |-> <<"connect">>]

\* BluePyllController.connect_adb
connect_adb(avail, conn) ==
    IF avail
    THEN [ret |-> "True", available |-> TRUE, raised |-> FALSE, events |-> <<>>]
    ELSE CASE conn = "ok" ->
                [ret |-> "True", available |-> TRUE, raised |-> FALSE,
                 events |-> <<"connect">>]
           [] conn = "fail" ->
                [ret |-> "False", available |-> FALSE, raised |-> FALSE,
                 events |-> <<"connect">>]
           [] conn = "raise" ->
                [ret |-> None, available |-> FALSE, raised |-> TRUE,
                 events |-> <<"connect">>]

\* disconnect_adb() were it to answer True without reading `available` again
\* after close().
disconnect_adb_AnswersTrue(avail, disc) ==
    IF ~avail
    THEN [ret |-> "True", available |-> FALSE, events |-> <<>>]
    ELSE [ret |-> "True", available |-> disc # "ok", events |-> <<"close">>]

\* BluePyllController.disconnect_adb
disconnect_adb(avail, disc) ==
    IF ~avail
    THEN [ret |-> "True", available |-> FALSE, events |-> <<>>]
    ELSE IF disc = "ok"
    THEN [ret |-> "True", available |-> FALSE, events |-> <<"close">>]
    ELSE [ret |-> "False", available |-> TRUE, events |-> <<"close">>]

\* The retry loop of is_app_running from attempt i on.  `bound` says whether
\* the local `output` has been assigned: a shell call that raises leaves
\* `output` as it was, and reading it unassigned raises UnboundLocalError,
\* which the outer except turns into False.
RECURSIVE query_loop(_, _, _, _, _)
query_loop(outs, i, max_retries, bound, events) ==
    IF i > max_retries
    THEN [ret |-> "False", events |-> events]
    ELSE LET ev == Append(events, "query:" \o outs[i])
         IN  CASE outs[i] = "out" -> [ret |-> "True", events |-> ev]
               [] outs[i] = "empty" ->
                    query_loop(outs, i + 1, max_retries, TRUE, ev)
               [] outs[i] = "raise" ->
                    IF bound
                    THEN query_loop(outs, i + 1, max_retries, TRUE, ev)
                    ELSE [ret |-> "False", events |-> ev]

\* BluePyllController.is_app_running(app, max_retries)
is_app_running(bs, avail, max_retries, conn, outs) ==
    IF bs # READY
    THEN [ret |-> None, available |-> avail, raised |-> FALSE, events |-> <<>>]
    ELSE LET c == connect_adb(avail, conn)
         IN  IF c.raised
             THEN [ret |-> None, available |-> c.available, raised |-> TRUE,
                   events |-> c.events]
             ELSE IF c.ret # "True"
             THEN [ret |-> "False", available |-> c.available,
                   raised |-> FALSE, events |-> c.events]
             ELSE LET q == query_loop(outs, 1, max_retries, FALSE, c.events)
                  IN  [ret |-> q.ret, available |-> c.available,
                       raised |-> FALSE, events |-> q.events]

\* How an operation that stops leaves the thread: an exception that leaves
\* __init__ leaves no controller.
After(caller) == IF caller = "ctor" THEN "failed" ELSE "idle"
OpName(caller) == IF caller = "ctor" THEN "__init__" ELSE caller

\* The fields __init__ sets before it calls open_bluestacks().
CtlInit ==
    /\ pc = "init"
    /\ frame = NoFrame
    /\ bluestacks_state = CLOSED
    /\ available = FALSE
    /\ running_apps = <<>>
    /\ apps \in AppIdentities
    /\ app_state = [a \in Apps |-> CLOSED]
    /\ last = Last("__init__", None, "running", None, None, <<>>, 0)
    /\ splash = FALSE

\* The polling loop were it to make one attempt more than max_retries.
RECURSIVE poll_loop_OneMore(_, _, _, _, _)
poll_loop_OneMore(i, max_retries, seen_at, late_at, events) ==
    IF i > max_retries + 1
    THEN [outcome |-> "exhausted", events |-> events]
    ELSE LET ev == Append(events, "poll")
         IN  IF seen_at = i
             THEN [outcome |-> "seen", events |-> ev]
             ELSE IF late_at # 0 /\ late_at <= i
             THEN [outcome |-> "timeout", events |-> ev]
             ELSE poll_loop_OneMore(i + 1, max_retries, seen_at, late_at, ev)

\* The polling loop of open_bluestacks from attempt i on.  seen_at: the
\* attempt whose process listing first holds HD-Player.exe; late_at: the
\* attempt at whose check the timeout has first elapsed (0: never).
RECURSIVE poll_loop(_, _, _, _, _)
poll_loop(i, max_retries, seen_at, late_at, events) ==
    IF i > max_retries
    THEN [outcome |-> "exhausted", events |-> events]
    ELSE LET ev == Append(events, "poll")
         IN  IF seen_at = i
             THEN [outcome |-> "seen", events |-> ev]
             ELSE IF late_at # 0 /\ late_at <= i
             THEN [outcome |-> "timeout", events |-> ev]
             ELSE poll_loop(i + 1, max_retries, seen_at, late_at, ev)

\* open_bluestacks were only READY to stop it: from LOADING it launches and
\* polls again.
OpenBluestacks_OnlyReadyStops(launch, max_retries, seen_at, late_at) ==
    /\ pc \in {"init", "idle"}
    /\ LET caller == IF pc = "init" THEN "ctor" ELSE "open_bluestacks"
           op == OpName(caller)
           n == IF pc = "init" THEN DEFAULT_MAX_RETRIES ELSE max_retries
           p == poll_loop(1, n, seen_at, late_at, <<"startfile">>)
       IN  IF bluestacks_state = READY
           THEN /\ last' = Last(op, None, "returned", None, None, <<>>, 0)
                /\ UNCHANGED <<pc, frame, bluestacks_state>>
           ELSE IF launch = "raise"
           THEN /\ last' = Last(op, None, "raised", "ValueError", None, <<"startfile">>, 0)
                /\ pc' = After(caller)
                /\ UNCHANGED <<frame, bluestacks_state>>
           ELSE IF p.outcome = "seen"
           THEN /\ bluestacks_state' = LOADING
                /\ pc' = "wait_for_load"
                /\ frame' = [NoFrame EXCEPT !.caller = caller]
                /\ last' = Last(op, None, "running", None, None, Append(p.events, "transition:LOADING"), 0)
           ELSE /\ last' = Last(op, None, "raised", IF n <= 0 THEN "UnboundLocalError" ELSE "Exception", None, p.events, 0)
                /\ pc' = After(caller)
                /\ UNCHANGED <<frame, bluestacks_state>>
    /\ UNCHANGED <<available, running_apps, apps, app_state>>

\* open_bluestacks(max_retries, wait_time, timeout_s): called by __init__
\* (pc = "init", with the defaults) or by the caller.  launch: os.startfile
\* returns or raises.  A poll that sees the process transitions to LOADING,
\* whose on_enter handler is wait_for_load.
OpenBluestacks(launch, max_retries, seen_at, late_at) ==
    /\ pc \in {"init", "idle"}
    /\ LET caller == IF pc = "init" THEN "ctor" ELSE "open_bluestacks"
           op == OpName(caller)
           n == IF pc = "init" THEN DEFAULT_MAX_RETRIES ELSE max_retries
           p == poll_loop(1, n, seen_at, late_at, <<"startfile">>)
       IN  IF bluestacks_state # CLOSED
           THEN /\ last' = Last(op, None, "returned", None, None, <<>>, 0)
                /\ UNCHANGED <<pc, frame, bluestacks_state>>
           ELSE IF launch = "raise"
           THEN /\ last' = Last(op, None, "raised", "ValueError", None, <<"startfile">>, 0)
                /\ pc' = After(caller)
                /\ UNCHANGED <<frame, bluestacks_state>>
           ELSE IF p.outcome = "seen"
           THEN /\ bluestacks_state' = LOADING
                /\ pc' = "wait_for_load"
                /\ frame' = [NoFrame EXCEPT !.caller = caller]
                /\ last' = Last(op, None, "running", None, None, Append(p.events, "transition:LOADING"), 0)
           ELSE /\ last' = Last(op, None, "raised", IF n <= 0 THEN "UnboundLocalError" ELSE "Exception", None, p.events, 0)
                /\ pc' = After(caller)
                /\ UNCHANGED <<frame, bluestacks_state>>
    /\ UNCHANGED <<available, running_apps, apps, app_state>>

\* where()'s loop condition
where_goes_on(retries, max_retries) ==
    IF max_retries > 0 THEN retries < max_retries ELSE TRUE

\* One pass of the loop of BluePyllElement.where(): the capture, then the
\* match.  No image: nothing is counted and the loop goes round again.  An
\* image that shows the element: its centre is returned.  An image that does
\* not: ImageNotFoundException, find_ui_retries is incremented and the loop
\* condition decides.
where_iter(cap, shows, retries, max_retries) ==
    CASE cap = "raise" -> [res |-> "raise", retries |-> retries]
      [] cap = "no_image" -> [res |-> "again", retries |-> retries]
      [] cap = "image" /\ shows -> [res |-> "box", retries |-> retries]
      [] cap = "image" /\ ~shows ->
            [res |-> IF where_goes_on(retries + 1, max_retries) THEN "again" ELSE "none",
             retries |-> retries + 1]

\* wait_for_load were it to return at its first pass, whatever the state.
WaitForLoadStep_ReturnsAtOnce(cap, shows, conn) ==
    /\ pc = "wait_for_load"
    /\ last' = Last(OpName(frame.caller), None, "returned", None, None, <<"capture">>, 0)
    /\ pc' = "idle"
    /\ frame' = NoFrame
    /\ UNCHANGED <<bluestacks_state, available, running_apps, apps, app_state>>

\* One pass of where()'s loop inside is_bluestacks_loading() inside
\* wait_for_load, the on_enter handler of LOADING.  shows: the captured image
\* shows the loading splash.  The splash found: True,
\* sleep, and wait_for_load polls again.  where() returns None: the state
\* goes LOADING -> READY, whose on_enter handler is connect_adb, and
\* wait_for_load ends.
WaitForLoadStep(cap, shows, conn) ==
    /\ pc = "wait_for_load"
    /\ LET op == OpName(frame.caller)
           c == connect_adb(available, conn)
           ret == IF frame.caller = "is_bluestacks_loading" THEN "True" ELSE None
           it == where_iter(cap, shows, frame.retries, WhereRetries)
       IN  CASE it.res = "again" ->
                  /\ last' = [last EXCEPT !.events = <<"capture">>]
                  /\ frame' = [frame EXCEPT !.retries = it.retries, !.tick = 1 - @]
                  /\ UNCHANGED <<pc, bluestacks_state, available>>
             [] it.res = "box" ->
                  /\ last' = [last EXCEPT !.events = <<"capture", "where:found">>]
                  /\ frame' = [frame EXCEPT !.retries = 0, !.tick = 1 - @]
                  /\ UNCHANGED <<pc, bluestacks_state, available>>
             [] it.res = "raise" ->
                  /\ last' = Last(op, None, "raised", "Exception", None, <<"capture", "where:raise">>, 0)
                  /\ pc' = After(frame.caller)
                  /\ frame' = NoFrame
                  /\ UNCHANGED <<bluestacks_state, available>>
             [] it.res = "none" ->
                  /\ bluestacks_state' = READY
                  /\ available' = c.available
                  /\ frame' = NoFrame
                  /\ IF c.raised
                     THEN /\ pc' = After(frame.caller)
                          /\ last' = Last(op, None, "raised", "ConnectError", None, <<"capture", "where:not_found", "transition:READY">> \o c.events, 0)
                     ELSE /\ pc' = "idle"
                          /\ last' = Last(op, None, "returned", None, ret, <<"capture", "where:not_found", "transition:READY">> \o c.events, 0)
    /\ UNCHANGED <<running_apps, apps, app_state>>

\* is_bluestacks_loading() were it to answer True when the state is CLOSED.
IsBluestacksLoading_ClosedAnswersTrue ==
    /\ pc = "idle"
    /\ LET op == "is_bluestacks_loading"
       IN  IF bluestacks_state = CLOSED
           THEN /\ last' = Last(op, None, "returned", None, "True", <<"where:not_found">>, 0)
                /\ UNCHANGED <<pc, frame>>
           ELSE /\ last' = Last(op, None, "running", None, None, <<>>, 0)
                /\ pc' = "where"
                /\ frame' = [NoFrame EXCEPT !.caller = op]
    /\ UNCHANGED <<bluestacks_state, available, running_apps, apps, app_state>>

\* is_bluestacks_loading(), called by the caller, up to where()'s loop.
\* where() returns None at once when the emulator state is CLOSED.
IsBluestacksLoading ==
    /\ pc = "idle"
    /\ LET op == "is_bluestacks_loading"
       IN  IF bluestacks_state = CLOSED
           THEN /\ last' = Last(op, None, "returned", None, "False", <<"where:not_found">>, 0)
                /\ UNCHANGED <<pc, frame>>
           ELSE /\ last' = Last(op, None, "running", None, None, <<>>, 0)
                /\ pc' = "where"
                /\ frame' = [NoFrame EXCEPT !.caller = op]
    /\ UNCHANGED <<bluestacks_state, available, running_apps, apps, app_state>>

\* is_bluestacks_loading() were its transition to LOADING not to run the
\* on_enter handler wait_for_load.
WhereStep_SkipsHandler(cap, shows, conn) ==
    /\ pc = "where"
    /\ LET op == "is_bluestacks_loading"
           c == connect_adb(available, conn)
           it == where_iter(cap, shows, frame.retries, WhereRetries)
       IN  CASE it.res = "again" ->
                  /\ last' = [last EXCEPT !.events = <<"capture">>]
                  /\ frame' = [frame EXCEPT !.retries = it.retries, !.tick = 1 - @]
                  /\ UNCHANGED <<pc, bluestacks_state, available>>
             [] it.res = "raise" ->
                  /\ last' = Last(op, None, "raised", "Exception", None, <<"capture", "where:raise">>, 0)
                  /\ pc' = "idle"
                  /\ frame' = NoFrame
                  /\ UNCHANGED <<bluestacks_state, available>>
             [] it.res = "box" /\ bluestacks_state = LOADING ->
                  /\ last' = Last(op, None, "returned", None, "True", <<"capture", "where:found">>, 0)
                  /\ pc' = "idle"
                  /\ frame' = NoFrame
                  /\ UNCHANGED <<bluestacks_state, available>>
             [] it.res = "box" /\ bluestacks_state # LOADING ->
                  /\ bluestacks_state' = LOADING
                  /\ pc' = "idle"
                  /\ frame' = NoFrame
                  /\ last' = Last(op, None, "returned", None, "True", <<"capture", "where:found", "transition:LOADING">>, 0)
                  /\ UNCHANGED available
             [] it.res = "none" /\ bluestacks_state = LOADING ->
                  /\ bluestacks_state' = READY
                  /\ available' = c.available
                  /\ pc' = "idle"
                  /\ frame' = NoFrame
                  /\ last' = IF c.raised
                             THEN Last(op, None, "raised", "ConnectError", None, <<"capture", "where:not_found", "transition:READY">> \o c.events, 0)
                             ELSE Last(op, None, "returned", None, "False", <<"capture", "where:not_found", "transition:READY">> \o c.events, 0)
             [] it.res = "none" /\ bluestacks_state # LOADING ->
                  /\ last' = Last(op, None, "returned", None, "False", <<"capture", "where:not_found">>, 0)
                  /\ pc' = "idle"
                  /\ frame' = NoFrame
                  /\ UNCHANGED <<bluestacks_state, available>>
    /\ UNCHANGED <<running_apps, apps, app_state>>

\* One pass of where()'s loop inside is_bluestacks_loading() called by the
\* caller, and what is_bluestacks_loading() does with where()'s result.
WhereStep(cap, shows, conn) ==
    /\ pc = "where"
    /\ LET op == "is_bluestacks_loading"
           c == connect_adb(available, conn)
           it == where_iter(cap, shows, frame.retries, WhereRetries)
       IN  CASE it.res = "again" ->
                  /\ last' = [last EXCEPT !.events = <<"capture">>]
                  /\ frame' = [frame EXCEPT !.retries = it.retries, !.tick = 1 - @]
                  /\ UNCHANGED <<pc, bluestacks_state, available>>
             [] it.res = "raise" ->
                  /\ last' = Last(op, None, "raised", "Exception", None, <<"capture", "where:raise">>, 0)
                  /\ pc' = "idle"
                  /\ frame' = NoFrame
                  /\ UNCHANGED <<bluestacks_state, available>>
             [] it.res = "box" /\ bluestacks_state = LOADING ->
                  /\ last' = Last(op, None, "returned", None, "True", <<"capture", "where:found">>, 0)
                  /\ pc' = "idle"
                  /\ frame' = NoFrame
                  /\ UNCHANGED <<bluestacks_state, available>>
             [] it.res = "box" /\ bluestacks_state # LOADING ->
                  /\ bluestacks_state' = LOADING
                  /\ pc' = "wait_for_load"
                  /\ frame' = [NoFrame EXCEPT !.caller = op]
                  /\ last' = Last(op, None, "running", None, None, <<"capture", "where:found", "transition:LOADING">>, 0)
                  /\ UNCHANGED available
             [] it.res = "none" /\ bluestacks_state = LOADING ->
                  /\ bluestacks_state' = READY
                  /\ available' = c.available
                  /\ pc' = "idle"
                  /\ frame' = NoFrame
                  /\ last' = IF c.raised
                             THEN Last(op, None, "raised", "ConnectError", None, <<"capture", "where:not_found", "transition:READY">> \o c.events, 0)
                             ELSE Last(op, None, "returned", None, "False", <<"capture", "where:not_found", "transition:READY">> \o c.events, 0)
             [] it.res = "none" /\ bluestacks_state # LOADING ->
                  /\ last' = Last(op, None, "returned", None, "False", <<"capture", "where:not_found">>, 0)
                  /\ pc' = "idle"
                  /\ frame' = NoFrame
                  /\ UNCHANGED <<bluestacks_state, available>>
    /\ UNCHANGED <<running_apps, apps, app_state>>

\* The emulator's screen: the loading splash comes up between the caller's
\* calls, and goes away at any time.
SplashStarts ==
    /\ pc \in {"init", "idle"}
    /\ ~splash
    /\ splash' = TRUE
    /\ UNCHANGED <<pc, frame, bluestacks_state, available, running_apps, apps, app_state, last>>

SplashEnds ==
    /\ splash
    /\ splash' = FALSE
    /\ UNCHANGED <<pc, frame, bluestacks_state, available, running_apps, apps, app_state, last>>

\* kill_bluestacks() were it to kill the process whatever disconnect_adb()
\* returned.
KillBluestacks_IgnoresDisconnect(found, disc, wait) ==
    /\ pc = "idle"
    /\ LET op == "kill_bluestacks"
           d == disconnect_adb(available, disc)
       IN  IF bluestacks_state = CLOSED
           THEN /\ last' = Last(op, None, "returned", None, "True", <<>>, 0)
                /\ UNCHANGED <<bluestacks_state, available>>
           ELSE IF ~found
           THEN /\ last' = Last(op, None, "returned", None, "False", <<"process_iter">>, 0)
                /\ UNCHANGED <<bluestacks_state, available>>
           ELSE /\ last' = Last(op, None, "returned", None, "True", <<"process_iter">> \o d.events \o <<"kill", "transition:CLOSED">>, 0)
                /\ available' = d.available
                /\ bluestacks_state' = CLOSED
    /\ UNCHANGED <<pc, frame, running_apps, apps, app_state>>

\* kill_bluestacks() were it to list the processes in every state.
KillBluestacks_AlwaysEnumerates(found, disc, wait) ==
    /\ pc = "idle"
    /\ LET op == "kill_bluestacks"
           d == disconnect_adb(available, disc)
       IN  IF ~found
           THEN /\ last' = Last(op, None, "returned", None, "False", <<"process_iter">>, 0)
                /\ UNCHANGED <<bluestacks_state, available>>
           ELSE IF d.ret # "True"
           THEN /\ last' = Last(op, None, "raised", "ValueError", None, <<"process_iter">> \o d.events, 0)
                /\ available' = d.available
                /\ UNCHANGED bluestacks_state
           ELSE /\ last' = Last(op, None, "returned", None, "True", <<"process_iter">> \o d.events \o <<"kill", "transition:CLOSED">>, 0)
                /\ available' = d.available
                /\ bluestacks_state' = CLOSED
    /\ UNCHANGED <<pc, frame, running_apps, apps, app_state>>

\* kill_bluestacks() were it to empty running_apps when it closes the emulator.
KillBluestacks_ForgetsApps(found, disc, wait) ==
    /\ pc = "idle"
    /\ LET op == "kill_bluestacks"
           d == disconnect_adb(available, disc)
       IN  IF bluestacks_state = CLOSED
           THEN /\ last' = Last(op, None, "returned", None, "True", <<>>, 0)
                /\ UNCHANGED <<bluestacks_state, available>>
           ELSE IF ~found
           THEN /\ last' = Last(op, None, "returned", None, "False", <<"process_iter">>, 0)
                /\ UNCHANGED <<bluestacks_state, available>>
           ELSE IF d.ret # "True"
           THEN /\ last' = Last(op, None, "raised", "ValueError", None, <<"process_iter">> \o d.events, 0)
                /\ available' = d.available
                /\ UNCHANGED bluestacks_state
           ELSE IF wait = "raise"
           THEN /\ last' = Last(op, None, "raised", "ValueError", None, <<"process_iter">> \o d.events \o <<"kill">>, 0)
                /\ available' = d.available
                /\ UNCHANGED bluestacks_state
           ELSE /\ last' = Last(op, None, "returned", None, "True", <<"process_iter">> \o d.events \o <<"kill", "transition:CLOSED">>, 0)
                /\ available' = d.available
                /\ bluestacks_state' = CLOSED
    /\ running_apps' = IF bluestacks_state' = CLOSED /\ bluestacks_state # CLOSED
                       THEN <<>>
                       ELSE running_apps
    /\ UNCHANGED <<pc, frame, apps, app_state>>

\* kill_bluestacks() were it to disconnect before it looks for the process.
KillBluestacks_DisconnectsUnfound(found, disc, wait) ==
    /\ pc = "idle"
    /\ LET op == "kill_bluestacks"
           d == disconnect_adb(available, disc)
       IN  IF bluestacks_state = CLOSED
           THEN /\ last' = Last(op, None, "returned", None, "True", <<>>, 0)
                /\ UNCHANGED <<bluestacks_state, available>>
           ELSE IF ~found
           THEN /\ last' = Last(op, None, "returned", None, "False", <<"process_iter">> \o d.events, 0)
                /\ available' = d.available
                /\ UNCHANGED bluestacks_state
           ELSE IF d.ret # "True"
           THEN /\ last' = Last(op, None, "raised", "ValueError", None, <<"process_iter">> \o d.events, 0)
                /\ available' = d.available
                /\ UNCHANGED bluestacks_state
           ELSE IF wait = "raise"
           THEN /\ last' = Last(op, None, "raised", "ValueError", None, <<"process_iter">> \o d.events \o <<"kill">>, 0)
                /\ available' = d.available
                /\ UNCHANGED bluestacks_state
           ELSE /\ last' = Last(op, None, "returned", None, "True", <<"process_iter">> \o d.events \o <<"kill", "transition:CLOSED">>, 0)
                /\ available' = d.available
                /\ bluestacks_state' = CLOSED
    /\ UNCHANGED <<pc, frame, running_apps, apps, app_state>>

\* kill_bluestacks().  found: an HD-Player.exe process is listed; disc: what
\* close() does; wait: proc.kill() and proc.wait() return, or raise.
KillBluestacks(found, disc, wait) ==
    /\ pc = "idle"
    /\ LET op == "kill_bluestacks"
           d == disconnect_adb(available, disc)
       IN  IF bluestacks_state = CLOSED
           THEN /\ last' = Last(op, None, "returned", None, "True", <<>>, 0)
                /\ UNCHANGED <<bluestacks_state, available>>
           ELSE IF ~found
           THEN /\ last' = Last(op, None, "returned", None, "False", <<"process_iter">>, 0)
                /\ UNCHANGED <<bluestacks_state, available>>
           ELSE IF d.ret # "True"
           THEN /\ last' = Last(op, None, "raised", "ValueError", None, <<"process_iter">> \o d.events, 0)
                /\ available' = d.available
                /\ UNCHANGED bluestacks_state
           ELSE IF wait = "raise"
           THEN /\ last' = Last(op, None, "raised", "ValueError", None, <<"process_iter">> \o d.events \o <<"kill">>, 0)
                /\ available' = d.available
                /\ UNCHANGED bluestacks_state
           ELSE /\ last' = Last(op, None, "returned", None, "True", <<"process_iter">> \o d.events \o <<"kill", "transition:CLOSED">>, 0)
                /\ available' = d.available
                /\ bluestacks_state' = CLOSED
    /\ UNCHANGED <<pc, frame, running_apps, apps, app_state>>

\* connect_adb(), called by the caller.
ConnectAdb(conn) ==
    /\ pc = "idle"
    /\ LET c == connect_adb(available, conn)
       IN  /\ available' = c.available
           /\ last' = IF c.raised
                      THEN Last("connect_adb", None, "raised", "ConnectError", None, c.events, 0)
                      ELSE Last("connect_adb", None, "returned", None, c.ret, c.events, 0)
    /\ UNCHANGED <<pc, frame, bluestacks_state, running_apps, apps, app_state>>

\* disconnect_adb(), called by the caller.
DisconnectAdb(disc) ==
    /\ pc = "idle"
    /\ LET d == disconnect_adb(available, disc)
       IN  /\ available' = d.available
           /\ last' = Last("disconnect_adb", None, "returned", None, d.ret, d.events, 0)
    /\ UNCHANGED <<pc, frame, bluestacks_state, running_apps, apps, app_state>>

\* app.app_state.transition_to(target, ignore_validation), called by the
\* caller on an App object it holds.
AppTransitionTo(app, target, ignore_validation) ==
    /\ pc = "idle"
    /\ LET r == app_transition_to(app_state[app], target, ignore_validation)
       IN  /\ app_state' = [app_state EXCEPT ![app] = r.state]
           /\ last' = IF r.outcome = "returned"
                      THEN Last("app_transition_to", app, "returned", None, r.ret, <<>>, 0)
                      ELSE Last("app_transition_to", app, "raised", r.outcome, None, <<>>, 0)
    /\ UNCHANGED <<pc, frame, bluestacks_state, available, running_apps, apps>>

\* is_app_running(app, max_retries), called by the caller.  outs: what the
\* window-focus query meets at each attempt.
IsAppRunning(app, max_retries, conn, outs) ==
    /\ pc = "idle"
    /\ LET op == "is_app_running"
           r == is_app_running(bluestacks_state, available, max_retries, conn, outs)
       IN  /\ available' = r.available
           /\ last' = IF r.raised
                      THEN Last(op, app, "raised", "ConnectError", None, r.events, 0)
                      ELSE Last(op, app, "returned", None, r.ret, r.events, 0)
    /\ UNCHANGED <<pc, frame, bluestacks_state, running_apps, apps, app_state>>

\* open_app(app, timeout, wait_time) up to its polling loop: the state check
\* and connect_adb().
OpenApp(app, timeout, conn) ==
    /\ pc = "idle"
    /\ Len(running_apps) < MaxRunning
    /\ LET op == "open_app"
           c == connect_adb(available, conn)
       IN  IF bluestacks_state # READY
           THEN /\ last' = Last(op, app, "returned", None, None, <<>>, 0)
                /\ UNCHANGED <<pc, frame, available>>
           ELSE IF c.raised
           THEN /\ last' = Last(op, app, "raised", "ConnectError", None, c.events, 0)
                /\ available' = c.available
                /\ UNCHANGED <<pc, frame>>
           ELSE IF c.ret # "True"
           THEN /\ last' = Last(op, app, "returned", None, None, c.events, 0)
                /\ available' = c.available
                /\ UNCHANGED <<pc, frame>>
           ELSE /\ last' = Last(op, app, "running", None, None, c.events, 0)
                /\ available' = c.available
                /\ pc' = "open_app"
                /\ frame' = [NoFrame EXCEPT !.caller = op, !.app = app, !.timeout = timeout]
    /\ UNCHANGED <<bluestacks_state, running_apps, apps, app_state>>

\* open_app's iteration were the app's state and running_apps updated whatever
\* is_app_running(app) returned.
OpenAppIter_UpdatesUnchecked(monkey, conn, outs, dt) ==
    /\ pc = "open_app"
    /\ frame.elapsed < frame.timeout
    /\ LET op == "open_app"
           app == frame.app
           r == is_app_running(bluestacks_state, available, AppRunningRetries, conn, outs)
           ev == <<"shell:monkey">> \o r.events
       IN  /\ last' = Last(op, app, "returned", None, None, ev \o <<"is_app_running:" \o r.ret, "transition:LOADING", "append">>, last.cmds + 1)
           /\ pc' = "idle"
           /\ frame' = NoFrame
           /\ available' = r.available
           /\ app_state' = [app_state EXCEPT ![app] = LOADING]
           /\ running_apps' = Append(running_apps, app)
    /\ UNCHANGED <<bluestacks_state, apps>>

\* open_app's iteration were it to take the App's machine to READY.
OpenAppIter_MarksReady(monkey, conn, outs, dt) ==
    /\ pc = "open_app"
    /\ frame.elapsed < frame.timeout
    /\ LET op == "open_app"
           app == frame.app
           r == is_app_running(bluestacks_state, available, AppRunningRetries, conn, outs)
           t == app_transition_to(app_state[app], READY, TRUE)
           ev == <<"shell:monkey">> \o r.events
           n == last.cmds + 1
       IN  IF monkey = "raise"
           THEN /\ last' = Last(op, app, "raised", "ShellError", None, <<"shell:monkey">>, n)
                /\ pc' = "idle"
                /\ frame' = NoFrame
                /\ UNCHANGED <<available, running_apps, app_state>>
           ELSE IF r.raised
           THEN /\ last' = Last(op, app, "raised", "ConnectError", None, ev, n)
                /\ pc' = "idle"
                /\ frame' = NoFrame
                /\ available' = r.available
                /\ UNCHANGED <<running_apps, app_state>>
           ELSE IF r.ret = "True" /\ t.outcome = "StateError"
           THEN /\ last' = Last(op, app, "raised", "StateError", None, Append(ev, "is_app_running:True"), n)
                /\ pc' = "idle"
                /\ frame' = NoFrame
                /\ available' = r.available
                /\ UNCHANGED <<running_apps, app_state>>
           ELSE IF r.ret = "True"
           THEN /\ last' = Last(op, app, "returned", None, None, ev \o <<"is_app_running:True", "transition:READY", "append">>, n)
                /\ pc' = "idle"
                /\ frame' = NoFrame
                /\ available' = r.available
                /\ app_state' = [app_state EXCEPT ![app] = t.state]
                /\ running_apps' = Append(running_apps, app)
           ELSE /\ last' = Last(op, app, "running", None, None, Append(ev, "is_app_running:False"), n)
                /\ frame' = [frame EXCEPT !.elapsed = @ + dt]
                /\ available' = r.available
                /\ UNCHANGED <<pc, running_apps, app_state>>
    /\ UNCHANGED <<bluestacks_state, apps>>

\* open_app's iteration were it to append the app without the transition of
\* its machine.
OpenAppIter_AppendsOnly(monkey, conn, outs, dt) ==
    /\ pc = "open_app"
    /\ frame.elapsed < frame.timeout
    /\ LET op == "open_app"
           app == frame.app
           r == is_app_running(bluestacks_state, available, AppRunningRetries, conn, outs)
           t == app_transition_to(app_state[app], LOADING, FALSE)
           ev == <<"shell:monkey">> \o r.events
           n == last.cmds + 1
       IN  IF monkey = "raise"
           THEN /\ last' = Last(op, app, "raised", "ShellError", None, <<"shell:monkey">>, n)
                /\ pc' = "idle"
                /\ frame' = NoFrame
                /\ UNCHANGED <<available, running_apps, app_state>>
           ELSE IF r.raised
           THEN /\ last' = Last(op, app, "raised", "ConnectError", None, ev, n)
                /\ pc' = "idle"
                /\ frame' = NoFrame
                /\ available' = r.available
                /\ UNCHANGED <<running_apps, app_state>>
           ELSE IF r.ret = "True" /\ t.outcome = "StateError"
           THEN /\ last' = Last(op, app, "raised", "StateError", None, Append(ev, "is_app_running:True"), n)
                /\ pc' = "idle"
                /\ frame' = NoFrame
                /\ available' = r.available
                /\ UNCHANGED <<running_apps, app_state>>
           ELSE IF r.ret = "True"
           THEN /\ last' = Last(op, app, "returned", None, None, ev \o <<"is_app_running:True", "transition:LOADING", "append">>, n)
                /\ pc' = "idle"
                /\ frame' = NoFrame
                /\ available' = r.available
                /\ running_apps' = Append(running_apps, app)
                /\ UNCHANGED app_state
           ELSE /\ last' = Last(op, app, "running", None, None, Append(ev, "is_app_running:False"), n)
                /\ frame' = [frame EXCEPT !.elapsed = @ + dt]
                /\ available' = r.available
                /\ UNCHANGED <<pc, running_apps, app_state>>
    /\ UNCHANGED <<bluestacks_state, apps>>

\* One iteration of open_app's loop: the monkey launch command, then
\* is_app_running(app); True: the App's machine goes to LOADING and the app is
\* appended; False: sleep and try again.  dt: the time the iteration took.
OpenAppIter(monkey, conn, outs, dt) ==
    /\ pc = "open_app"
    /\ frame.elapsed < frame.timeout
    /\ LET op == "open_app"
           app == frame.app
           r == is_app_running(bluestacks_state, available, AppRunningRetries, conn, outs)
           t == app_transition_to(app_state[app], LOADING, FALSE)
           ev == <<"shell:monkey">> \o r.events
           n == last.cmds + 1
       IN  IF monkey = "raise"
           THEN /\ last' = Last(op, app, "raised", "ShellError", None, <<"shell:monkey">>, n)
                /\ pc' = "idle"
                /\ frame' = NoFrame
                /\ UNCHANGED <<available, running_apps, app_state>>
           ELSE IF r.raised
           THEN /\ last' = Last(op, app, "raised", "ConnectError", None, ev, n)
                /\ pc' = "idle"
                /\ frame' = NoFrame
                /\ available' = r.available
                /\ UNCHANGED <<running_apps, app_state>>
           ELSE IF r.ret = "True" /\ t.outcome = "StateError"
           THEN /\ last' = Last(op, app, "raised", "StateError", None, Append(ev, "is_app_running:True"), n)
                /\ pc' = "idle"
                /\ frame' = NoFrame
                /\ available' = r.available
                /\ UNCHANGED <<running_apps, app_state>>
           ELSE IF r.ret = "True"
           THEN /\ last' = Last(op, app, "returned", None, None, ev \o <<"is_app_running:True", "transition:LOADING", "append">>, n)
                /\ pc' = "idle"
                /\ frame' = NoFrame
                /\ available' = r.available
                /\ app_state' = [app_state EXCEPT ![app] = t.state]
                /\ running_apps' = Append(running_apps, app)
           ELSE /\ last' = Last(op, app, "running", None, None, Append(ev, "is_app_running:False"), n)
                /\ frame' = [frame EXCEPT !.elapsed = @ + dt]
                /\ available' = r.available
                /\ UNCHANGED <<pc, running_apps, app_state>>
    /\ UNCHANGED <<bluestacks_state, apps>>

\* open_app's loop ends on its timeout: a warning, no exception.
OpenAppTimeout ==
    /\ pc = "open_app"
    /\ frame.elapsed >= frame.timeout
    /\ last' = [last EXCEPT !.outcome = "returned", !.events = Append(@, "timeout")]
    /\ pc' = "idle"
    /\ frame' = NoFrame
    /\ UNCHANGED <<bluestacks_state, available, running_apps, apps, app_state>>

\* close_app were only a CLOSED emulator to stop it: with the emulator LOADING
\* it goes on to connect_adb() and its polling loop.
CloseApp_OnlyClosedStops(app, timeout, conn) ==
    /\ pc = "idle"
    /\ LET op == "close_app"
           c == connect_adb(available, conn)
       IN  IF bluestacks_state = CLOSED
           THEN /\ last' = Last(op, app, "returned", None, None, <<>>, 0)
                /\ UNCHANGED <<pc, frame, available>>
           ELSE IF c.raised
           THEN /\ last' = Last(op, app, "raised", "ConnectError", None, c.events, 0)
                /\ available' = c.available
                /\ UNCHANGED <<pc, frame>>
           ELSE IF c.ret # "True"
           THEN /\ last' = Last(op, app, "returned", None, None, c.events, 0)
                /\ available' = c.available
                /\ UNCHANGED <<pc, frame>>
           ELSE /\ last' = Last(op, app, "running", None, None, c.events, 0)
                /\ available' = c.available
                /\ pc' = "close_app"
                /\ frame' = [NoFrame EXCEPT !.caller = op, !.app = app, !.timeout = timeout]
    /\ UNCHANGED <<bluestacks_state, running_apps, apps, app_state>>

\* close_app(app, timeout, wait_time) up to its polling loop.
CloseApp(app, timeout, conn) ==
    /\ pc = "idle"
    /\ LET op == "close_app"
           c == connect_adb(available, conn)
       IN  IF bluestacks_state # READY
           THEN /\ last' = Last(op, app, "returned", None, None, <<>>, 0)
                /\ UNCHANGED <<pc, frame, available>>
           ELSE IF c.raised
           THEN /\ last' = Last(op, app, "raised", "ConnectError", None, c.events, 0)
                /\ available' = c.available
                /\ UNCHANGED <<pc, frame>>
           ELSE IF c.ret # "True"
           THEN /\ last' = Last(op, app, "returned", None, None, c.events, 0)
                /\ available' = c.available
                /\ UNCHANGED <<pc, frame>>
           ELSE /\ last' = Last(op, app, "running", None, None, c.events, 0)
                /\ available' = c.available
                /\ pc' = "close_app"
                /\ frame' = [NoFrame EXCEPT !.caller = op, !.app = app, !.timeout = timeout]
    /\ UNCHANGED <<bluestacks_state, running_apps, apps, app_state>>

\* running_apps without the entries equal (BluePyllApp.__eq__) to app, the
\* apps' states being st.
without_app(list, st, app) ==
    SelectSeq(list, LAMBDA e : ~AppEq(AppRecord(st, e), AppRecord(st, app)))

\* One iteration of close_app's loop: the force-stop command, then
\* is_app_running(app); False: the App's machine goes to CLOSED and the app is
\* filtered out of running_apps; True: sleep and try again.
CloseAppIter(stop, conn, outs, dt) ==
    /\ pc = "close_app"
    /\ frame.elapsed < frame.timeout
    /\ LET op == "close_app"
           app == frame.app
           r == is_app_running(bluestacks_state, available, AppRunningRetries, conn, outs)
           t == app_transition_to(app_state[app], CLOSED, FALSE)
           st == [app_state EXCEPT ![app] = t.state]
           ev == <<"shell:force-stop">> \o r.events
           n == last.cmds + 1
       IN  IF stop = "raise"
           THEN /\ last' = Last(op, app, "raised", "ShellError", None, <<"shell:force-stop">>, n)
                /\ pc' = "idle"
                /\ frame' = NoFrame
                /\ UNCHANGED <<available, running_apps, app_state>>
           ELSE IF r.raised
           THEN /\ last' = Last(op, app, "raised", "ConnectError", None, ev, n)
                /\ pc' = "idle"
                /\ frame' = NoFrame
                /\ available' = r.available
                /\ UNCHANGED <<running_apps, app_state>>
           ELSE IF r.ret = "True"
           THEN /\ last' = Last(op, app, "running", None, None, Append(ev, "is_app_running:True"), n)
                /\ frame' = [frame EXCEPT !.elapsed = @ + dt]
                /\ available' = r.available
                /\ UNCHANGED <<pc, running_apps, app_state>>
           ELSE IF t.outcome = "StateError"
           THEN /\ last' = Last(op, app, "raised", "StateError", None, Append(ev, "is_app_running:False"), n)
                /\ pc' = "idle"
                /\ frame' = NoFrame
                /\ available' = r.available
                /\ UNCHANGED <<running_apps, app_state>>
           ELSE /\ last' = Last(op, app, "returned", None, None, ev \o <<"is_app_running:False", "transition:CLOSED", "filter">>, n)
                /\ pc' = "idle"
                /\ frame' = NoFrame
                /\ available' = r.available
                /\ app_state' = st
                /\ running_apps' = without_app(running_apps, st, app)
    /\ UNCHANGED <<bluestacks_state, apps>>

\* close_app's loop ends on its timeout: a warning, no exception.
CloseAppTimeout ==
    /\ pc = "close_app"
    /\ frame.elapsed >= frame.timeout
    /\ last' = [last EXCEPT !.outcome = "returned", !.events = Append(@, "timeout")]
    /\ pc' = "idle"
    /\ frame' = NoFrame
    /\ UNCHANGED <<bluestacks_state, available, running_apps, apps, app_state>>

(***************************************************************************)
(* Specifications.                                                         *)
(***************************************************************************)
\* The variables a specification does not use keep one value.
\* ------------------------------------------------------------------------
\* BluePyllElement's constructor and check_pixel_color, and the controller's
\* ref_window_size property.  A tuple-valued field that is None is <<>>.
\* ------------------------------------------------------------------------

\* Bounds: coordinates, widths and heights, colour channels, tolerances.
MaxCoord == 1
MaxSize == 2
MaxChan == 1
MaxTol == 1

\* BluestacksConstants.DEFAULT_REF_WINDOW_SIZE
DEFAULT_REF_WINDOW_SIZE == <<1920, 1080>>

Unset == <<>>
\* The types the constructor tells apart: pixel, text, and button for
\* button, input and image, which it treats alike.
ElementTypes == {"pixel", "PIXEL", "button", "text"}
Positions == {Unset} \cup ((0..MaxCoord) \X (0..MaxCoord))
Sizes == {Unset} \cup ((1..MaxSize) \X (1..MaxSize))
Colors == (0..MaxChan) \X (0..MaxChan) \X (0..MaxChan)
\* pixel_color arguments of the constructor
ColorArgs == {Unset, <<0, 0, 0>>, <<MaxChan, 0, MaxChan>>}
PathArgs == {None, "button.png"}
ConfidenceArgs == {None, "0.0", "0.9"}
TextArgs == {None, "", "Play"}
Tolerances == (0 - 1)..MaxTol

\* str.lower() on the strings the model passes.
Lower(str) ==
    CASE str = "PIXEL" -> "pixel"
      [] str = "Play" -> "play"
      [] OTHER -> str

\* Python's truth value of an optional string argument, and of an optional
\* tuple argument.
Truthy(x) == x \notin {None, "", "0.0"}
Given(tuple) == tuple # Unset

Abs(n) == IF n < 0 THEN 0 - n ELSE n

NoElement == [built |-> FALSE]

\* BluePyllElement.__init__ were a pixel element to keep the is_static it is
\* given.
BluePyllElement_KeepsStatic(ele_type, position, size, path, is_static, confidence, ele_txt, pixel_color) ==
    LET t == Lower(ele_type)
        sz == IF t = "pixel" THEN <<1, 1>> ELSE size
    IN  IF t # "pixel" /\ Given(position) /\ ~Given(sz)
        THEN [built |-> FALSE, raised |-> TRUE]
        ELSE [built |-> TRUE,
              raised |-> FALSE,
              ele_type |-> t,
              position |-> position,
              size |-> sz,
              path |-> IF t = "pixel" THEN None ELSE path,
              is_static |-> is_static,
              confidence |-> IF t \in {"pixel", "text"} THEN None
                             ELSE IF Truthy(confidence) THEN confidence ELSE "0.7",
              ele_txt |-> IF t = "pixel" \/ ~Truthy(ele_txt) THEN None ELSE Lower(ele_txt),
              pixel_color |-> IF t \in {"button", "text", "input", "image"} THEN Unset
                              ELSE pixel_color,
              region |-> IF t = "pixel" \/ ~Given(position) THEN Unset
                         ELSE <<position[1], position[2], position[1] + sz[1], position[2] + sz[2]>>,
              center |-> IF t = "text" THEN Unset
                         ELSE IF t = "pixel" THEN position
                         ELSE IF Given(position) /\ Given(sz)
                         THEN <<position[1] + (sz[1] \div 2), position[2] + (sz[2] \div 2)>>
                         ELSE Unset]

\* BluePyllElement.__init__: the fields in the order they are assigned.
\* region reads self.size[0] whenever the type is not pixel and position is
\* set: with size None that is a TypeError and no object is made.
BluePyllElement(ele_type, position, size, path, is_static, confidence, ele_txt, pixel_color) ==
    LET t == Lower(ele_type)
        sz == IF t = "pixel" THEN <<1, 1>> ELSE size
    IN  IF t # "pixel" /\ Given(position) /\ ~Given(sz)
        THEN [built |-> FALSE, raised |-> TRUE]
        ELSE [built |-> TRUE,
              raised |-> FALSE,
              ele_type |-> t,
              position |-> position,
              size |-> sz,
              path |-> IF t = "pixel" THEN None ELSE path,
              is_static |-> IF t = "pixel" THEN TRUE ELSE is_static,
              confidence |-> IF t \in {"pixel", "text"} THEN None
                             ELSE IF Truthy(confidence) THEN confidence ELSE "0.7",
              ele_txt |-> IF t = "pixel" \/ ~Truthy(ele_txt) THEN None ELSE Lower(ele_txt),
              pixel_color |-> IF t \in {"button", "text", "input", "image"} THEN Unset
                              ELSE pixel_color,
              region |-> IF t = "pixel" \/ ~Given(position) THEN Unset
                         ELSE <<position[1], position[2], position[1] + sz[1], position[2] + sz[2]>>,
              center |-> IF t = "text" THEN Unset
                         ELSE IF t = "pixel" THEN position
                         ELSE IF Given(position) /\ Given(sz)
                         THEN <<position[1] + (sz[1] \div 2), position[2] + (sz[2] \div 2)>>
                         ELSE Unset]

\* check_color_with_tolerance: all(abs(c1 - c2) <= tolerance) over the
\* zipped channels.
check_color_with_tolerance(color1, color2, tolerance) ==
    \A i \in 1..(IF Len(color1) < Len(color2) THEN Len(color1) ELSE Len(color2)) :
        Abs(color1[i] - color2[i]) <= tolerance

\* BluePyllElement.check_pixel_color(target_color, image, tolerance) on an
\* image whose pixel at the element's centre is `pixel`.  The local
\* target_color is overwritten with self.pixel_color before it is read.
\* len(None) is a TypeError, which the method re-raises as ValueError.
check_pixel_color(el, target_color, pixel, tolerance) ==
    LET coords == el.center
        target == el.pixel_color
    IN  IF coords = Unset \/ Len(coords) # 2 THEN [raised |-> TRUE, exc |-> "ValueError", ret |-> None]
        ELSE IF target = Unset \/ Len(target) # 3 THEN [raised |-> TRUE, exc |-> "ValueError", ret |-> None]
        ELSE IF tolerance < 0 THEN [raised |-> TRUE, exc |-> "ValueError", ret |-> None]
        ELSE [raised |-> FALSE, exc |-> None,
              ret |-> IF check_color_with_tolerance(pixel, target, tolerance) THEN "True" ELSE "False"]

NoCall == [op |-> None, args |-> <<>>, outcome |-> "returned", exc |-> None, ret |-> <<>>]

\* The caller constructs an element.
Construct(ele_type, position, size, path, is_static, confidence, ele_txt, pixel_color) ==
    /\ ~element.built
    /\ ui_last = NoCall
    /\ LET e == BluePyllElement(ele_type, position, size, path, is_static, confidence, ele_txt, pixel_color)
       IN  /\ element' = IF e.raised THEN element ELSE e
           /\ ui_last' = [op |-> "__init__",
                          args |-> <<Lower(ele_type), position, size>>,
                          outcome |-> IF e.raised THEN "raised" ELSE "returned",
                          exc |-> IF e.raised THEN "TypeError" ELSE None,
                          ret |-> <<>>]
    /\ UNCHANGED ref_window_size

\* The caller drops the element, or what a failed construction left, and
\* starts again.
Discard ==
    /\ element.built \/ ui_last # NoCall
    /\ element' = NoElement
    /\ ui_last' = NoCall
    /\ UNCHANGED ref_window_size

\* element.check_pixel_color(target_color, image, tolerance), called by the
\* caller on the pixel element it has just constructed.
CheckPixelColor(target_color, pixel, tolerance) ==
    /\ element.built
    /\ element.ele_type = "pixel"
    /\ ui_last.op = "__init__"
    /\ LET r == check_pixel_color(element, target_color, pixel, tolerance)
       IN  ui_last' = [op |-> "check_pixel_color",
                       args |-> <<target_color, pixel, tolerance>>,
                       outcome |-> IF r.raised THEN "raised" ELSE "returned",
                       exc |-> r.exc,
                       ret |-> <<r.ret>>]
    /\ UNCHANGED <<element, ref_window_size>>

\* controller.ref_window_size = (width, height).  The property's setter is
\* log_property_setter's wrapper(self, value), which calls the decorated
\* ref_window_size(self, width, height) with the one value: TypeError for
\* the missing `height`, before the body runs.
SetRefWindowSize(width, height) ==
    /\ ui_last' = [op |-> "set_ref_window_size", args |-> <<width, height>>,
                   outcome |-> "raised", exc |-> "TypeError", ret |-> <<>>]
    /\ UNCHANGED <<element, ref_window_size>>

\* controller.ref_window_size
GetRefWindowSize ==
    /\ ui_last' = [op |-> "get_ref_window_size", args |-> <<>>,
                   outcome |-> "returned", exc |-> None, ret |-> ref_window_size]
    /\ UNCHANGED <<element, ref_window_size>>

UiInit ==
    /\ element = NoElement
    /\ ref_window_size = DEFAULT_REF_WINDOW_SIZE
    /\ ui_last = NoCall

UiUnused == UiInit

\* Widths and heights given to the controller.
MaxDim == 2
Dims == (0 - 1)..MaxDim

\* __init__ stores the ref_window_size it is given, or the default, as it
\* is.
RefInit ==
    /\ element = NoElement
    /\ ref_window_size \in {DEFAULT_REF_WINDOW_SIZE} \cup (Dims \X Dims)
    /\ ui_last = NoCall

SMUnused ==
    /\ sm_kind = "BluestacksState"
    /\ current_state = CLOSED
    /\ state_handlers = NoHandlers
    /\ sm_last = [op |-> "init", from |-> None, target |-> None,
                  ignore_validation |-> FALSE, outcome |-> "returned",
                  ret |-> None, calls |-> <<>>]
    /\ reg_calls = <<>>

AppUnused ==
    /\ app1 = BluePyllApp("TestApp", "com.test.app")
    /\ app2 = BluePyllApp("TestApp", "com.test.app")
    /\ cmp = [done |-> FALSE, left |-> app1, right |-> app2, result |-> FALSE]

CtlUnused ==
    /\ pc = "idle"
    /\ frame = NoFrame
    /\ bluestacks_state = CLOSED
    /\ available = FALSE
    /\ running_apps = <<>>
    /\ apps \in {[a \in Apps |-> [app_name |-> "TestApp", package_name |-> "com.test.app"]]}
    /\ app_state = [a \in Apps |-> CLOSED]
    /\ last = Last("__init__", None, "returned", None, None, <<>>, 0)
    /\ splash = FALSE

HandlerArgs == Handlers \cup {None}
Timeouts == 0..MaxTimeout
Dts == 1..MaxDt
QueryOutcomes == [1..AppRunningRetries -> ShellOutcomes]
\* What the transport's connect() does when connect_adb() calls it; it is not
\* called while the transport is available.
ConnectInputs == IF available THEN {None} ELSE ConnectOutcomes
RetryArgs == 0..MaxPolls
Attempts == 0..MaxPolls
\* What open_bluestacks meets: it launches and polls only from CLOSED, and
\* __init__ passes it no max_retries.
LaunchInputs == IF bluestacks_state = CLOSED THEN {"ok", "raise"} ELSE {None}
RetryInputs == IF bluestacks_state = CLOSED /\ pc # "init" THEN RetryArgs ELSE {DEFAULT_MAX_RETRIES}
AttemptInputs == IF bluestacks_state = CLOSED THEN Attempts ELSE {0}
\* What the queries of an is_app_running(app, max_retries) call meet.
RetryScripts == [1..MaxPolls -> ShellOutcomes]

\* The controller, the App objects and their caller.  What a captured image
\* shows is an input of each capture.
Init == CtlInit /\ SMUnused /\ AppUnused /\ UiUnused

Next ==
    \/ \E launch \in LaunchInputs, max_retries \in RetryInputs, seen_at \in AttemptInputs, late_at \in AttemptInputs :
          OpenBluestacks(launch, max_retries, seen_at, late_at) /\ UNCHANGED <<sm_vars, app_vars, ui_vars, splash>>
    \/ \E cap \in CaptureOutcomes, shows \in BOOLEAN, conn \in ConnectInputs :
          WaitForLoadStep(cap, shows, conn) /\ UNCHANGED <<sm_vars, app_vars, ui_vars, splash>>
    \/ IsBluestacksLoading /\ UNCHANGED <<sm_vars, app_vars, ui_vars, splash>>
    \/ \E cap \in CaptureOutcomes, shows \in BOOLEAN, conn \in ConnectInputs :
          WhereStep(cap, shows, conn) /\ UNCHANGED <<sm_vars, app_vars, ui_vars, splash>>
    \/ \E found \in BOOLEAN, disc \in CloseOutcomes, wait \in {"ok", "raise"} :
          KillBluestacks(found, disc, wait) /\ UNCHANGED <<sm_vars, app_vars, ui_vars, splash>>
    \/ \E conn \in ConnectInputs :
          ConnectAdb(conn) /\ UNCHANGED <<sm_vars, app_vars, ui_vars, splash>>
    \/ \E disc \in CloseOutcomes :
          DisconnectAdb(disc) /\ UNCHANGED <<sm_vars, app_vars, ui_vars, splash>>
    \/ \E app \in Apps, target \in States, ignore_validation \in BOOLEAN :
          AppTransitionTo(app, target, ignore_validation) /\ UNCHANGED <<sm_vars, app_vars, ui_vars, splash>>
    \/ \E app \in Apps, timeout \in Timeouts, conn \in ConnectInputs :
          OpenApp(app, timeout, conn) /\ UNCHANGED <<sm_vars, app_vars, ui_vars, splash>>
    \/ \E monkey \in {"ok", "raise"}, conn \in ConnectInputs, outs \in QueryOutcomes, dt \in Dts :
          OpenAppIter(monkey, conn, outs, dt) /\ UNCHANGED <<sm_vars, app_vars, ui_vars, splash>>
    \/ OpenAppTimeout /\ UNCHANGED <<sm_vars, app_vars, ui_vars, splash>>
    \/ \E app \in Apps, timeout \in Timeouts, conn \in ConnectInputs :
          CloseApp(app, timeout, conn) /\ UNCHANGED <<sm_vars, app_vars, ui_vars, splash>>
    \/ \E stop \in {"ok", "raise"}, conn \in ConnectInputs, outs \in QueryOutcomes, dt \in Dts :
          CloseAppIter(stop, conn, outs, dt) /\ UNCHANGED <<sm_vars, app_vars, ui_vars, splash>>
    \/ CloseAppTimeout /\ UNCHANGED <<sm_vars, app_vars, ui_vars, splash>>

Spec == Init /\ [][Next]_vars

\* The controller's emulator operations, their caller and the emulator's
\* screen: a captured image shows what is on the screen.  The caller thread
\* keeps running, and a splash on the screen goes away.
EmuNext ==
    \/ \E launch \in LaunchInputs, max_retries \in RetryInputs, seen_at \in AttemptInputs, late_at \in AttemptInputs :
          OpenBluestacks(launch, max_retries, seen_at, late_at) /\ UNCHANGED <<sm_vars, app_vars, ui_vars, splash>>
    \/ \E cap \in CaptureOutcomes, conn \in ConnectInputs :
          WaitForLoadStep(cap, splash, conn) /\ UNCHANGED <<sm_vars, app_vars, ui_vars, splash>>
    \/ IsBluestacksLoading /\ UNCHANGED <<sm_vars, app_vars, ui_vars, splash>>
    \/ \E cap \in CaptureOutcomes, conn \in ConnectInputs :
          WhereStep(cap, splash, conn) /\ UNCHANGED <<sm_vars, app_vars, ui_vars, splash>>
    \/ \E found \in BOOLEAN, disc \in CloseOutcomes, wait \in {"ok", "raise"} :
          KillBluestacks(found, disc, wait) /\ UNCHANGED <<sm_vars, app_vars, ui_vars, splash>>
    \/ \E conn \in ConnectInputs :
          ConnectAdb(conn) /\ UNCHANGED <<sm_vars, app_vars, ui_vars, splash>>
    \/ \E disc \in CloseOutcomes :
          DisconnectAdb(disc) /\ UNCHANGED <<sm_vars, app_vars, ui_vars, splash>>
    \/ \E app \in Apps, max_retries \in RetryArgs, conn \in ConnectInputs, outs \in RetryScripts :
          IsAppRunning(app, max_retries, conn, outs) /\ UNCHANGED <<sm_vars, app_vars, ui_vars, splash>>
    \/ SplashStarts /\ UNCHANGED <<sm_vars, app_vars, ui_vars>>
    \/ SplashEnds /\ UNCHANGED <<sm_vars, app_vars, ui_vars>>

WaitForLoadRuns ==
    \E cap \in CaptureOutcomes, conn \in ConnectInputs :
        WaitForLoadStep(cap, splash, conn) /\ UNCHANGED <<sm_vars, app_vars, ui_vars, splash>>

SpecEmu ==
    /\ Init
    /\ [][EmuNext]_vars
    /\ WF_vars(WaitForLoadRuns)
    /\ WF_vars(SplashEnds /\ UNCHANGED <<sm_vars, app_vars, ui_vars>>)

\* ------------------------------------------------------------------------
\* The input-injection actions
\* ------------------------------------------------------------------------

\* The shell command each input-injection action sends.
InputCommands ==
    [type_text |-> "input text",
     press_enter |-> "input keyevent 66",
     press_esc |-> "input keyevent 4",
     go_home |-> "input keyevent 3",
     show_recent_apps |-> "input keyevent KEYCODE_APP_SWITCH",
     capture_screenshot |-> "screencap -p"]

InputOps == DOMAIN InputCommands

\* The events of the shell commands of the input-injection actions.
ShellEvents == {"shell:" \o InputCommands[op] : op \in InputOps}

\* How many shell commands the events hold.
ShellCount(events) == Cardinality({i \in 1..Len(events) : events[i] \in ShellEvents})

\* An input-injection action were it to send its command in every state.
key_action_NoStateCheck(bs, avail, cmd, conn, sh) ==
    [outcome |-> "returned", exc |-> None, ret |-> None, available |-> avail,
     events |-> <<"shell:" \o cmd>>]

\* What type_text, press_enter, press_esc and go_home have in common: the
\* state check, connect_adb(), then one shell command, whose error is not
\* caught.
key_action(bs, avail, cmd, conn, sh) ==
    IF bs # READY
    THEN [outcome |-> "returned", exc |-> None, ret |-> None, available |-> avail,
          events |-> <<>>]
    ELSE LET c == connect_adb(avail, conn)
         IN  IF c.raised
             THEN [outcome |-> "raised", exc |-> "ConnectError", ret |-> None,
                   available |-> c.available, events |-> c.events]
             ELSE IF c.ret # "True"
             THEN [outcome |-> "returned", exc |-> None, ret |-> None,
                   available |-> c.available, events |-> c.events]
             ELSE IF sh = "raise"
             THEN [outcome |-> "raised", exc |-> "ShellError", ret |-> None,
                   available |-> c.available,
                   events |-> Append(c.events, "shell:" \o cmd)]
             ELSE [outcome |-> "returned", exc |-> None, ret |-> None,
                   available |-> c.available,
                   events |-> Append(c.events, "shell:" \o cmd)]

\* BluePyllController.show_recent_apps: the state check, then the shell
\* command; connect_adb() is not called.
show_recent_apps(bs, avail, sh) ==
    IF bs # READY
    THEN [outcome |-> "returned", exc |-> None, ret |-> None, available |-> avail,
          events |-> <<>>]
    ELSE [outcome |-> IF sh = "raise" THEN "raised" ELSE "returned",
          exc |-> IF sh = "raise" THEN "ShellError" ELSE None,
          ret |-> None, available |-> avail,
          events |-> <<"shell:" \o InputCommands.show_recent_apps>>]

\* BluePyllController.capture_screenshot: as the key actions, but an error of
\* the shell command is caught and None returned; otherwise the bytes the
\* command gave are returned.
capture_screenshot(bs, avail, conn, sh) ==
    LET k == key_action(bs, avail, InputCommands.capture_screenshot, conn, sh)
    IN  IF ShellCount(k.events) = 0
        THEN k
        ELSE [k EXCEPT !.outcome = "returned", !.exc = None,
                       !.ret = CASE sh = "out" -> "bytes"
                                 [] sh = "empty" -> "empty"
                                 [] sh = "raise" -> None]

\* How an input-injection action called by the caller ends.
InputEnds(op, r) ==
    /\ pc = "idle"
    /\ available' = r.available
    /\ last' = Last(op, None, r.outcome, r.exc, r.ret, r.events, 0)
    /\ UNCHANGED <<pc, frame, bluestacks_state, running_apps, apps, app_state>>

TypeText(conn, sh) ==
    InputEnds("type_text", key_action(bluestacks_state, available, InputCommands.type_text, conn, sh))

PressEnter(conn, sh) ==
    InputEnds("press_enter", key_action(bluestacks_state, available, InputCommands.press_enter, conn, sh))

PressEsc(conn, sh) ==
    InputEnds("press_esc", key_action(bluestacks_state, available, InputCommands.press_esc, conn, sh))

GoHome(conn, sh) ==
    InputEnds("go_home", key_action(bluestacks_state, available, InputCommands.go_home, conn, sh))

ShowRecentApps(sh) ==
    InputEnds("show_recent_apps", show_recent_apps(bluestacks_state, available, sh))

CaptureScreenshot(conn, sh) ==
    InputEnds("capture_screenshot", capture_screenshot(bluestacks_state, available, conn, sh))

\* The shell outcomes that matter: those of a command that is sent.
ShellInputs == IF bluestacks_state = READY THEN ShellOutcomes ELSE {"out"}
\* connect() is called only in state READY with the transport not available.
InputConnects == IF bluestacks_state = READY THEN ConnectInputs ELSE {None}

\* The controller, its emulator operations and the input-injection actions.
\* What a captured image shows is an input of each capture.
InputNext ==
    \/ \E launch \in LaunchInputs, max_retries \in RetryInputs, seen_at \in AttemptInputs, late_at \in AttemptInputs :
          OpenBluestacks(launch, max_retries, seen_at, late_at) /\ UNCHANGED <<sm_vars, app_vars, ui_vars, splash>>
    \/ \E cap \in CaptureOutcomes, shows \in BOOLEAN, conn \in ConnectInputs :
          WaitForLoadStep(cap, shows, conn) /\ UNCHANGED <<sm_vars, app_vars, ui_vars, splash>>
    \/ \E found \in BOOLEAN, disc \in CloseOutcomes, wait \in {"ok", "raise"} :
          KillBluestacks(found, disc, wait) /\ UNCHANGED <<sm_vars, app_vars, ui_vars, splash>>
    \/ \E disc \in CloseOutcomes :
          DisconnectAdb(disc) /\ UNCHANGED <<sm_vars, app_vars, ui_vars, splash>>
    \/ \E conn \in InputConnects, sh \in ShellInputs :
          TypeText(conn, sh) /\ UNCHANGED <<sm_vars, app_vars, ui_vars, splash>>
    \/ \E conn \in InputConnects, sh \in ShellInputs :
          PressEnter(conn, sh) /\ UNCHANGED <<sm_vars, app_vars, ui_vars, splash>>
    \/ \E conn \in InputConnects, sh \in ShellInputs :
          PressEsc(conn, sh) /\ UNCHANGED <<sm_vars, app_vars, ui_vars, splash>>
    \/ \E conn \in InputConnects, sh \in ShellInputs :
          GoHome(conn, sh) /\ UNCHANGED <<sm_vars, app_vars, ui_vars, splash>>
    \/ \E sh \in ShellInputs :
          ShowRecentApps(sh) /\ UNCHANGED <<sm_vars, app_vars, ui_vars, splash>>
    \/ \E conn \in InputConnects, sh \in ShellInputs :
          CaptureScreenshot(conn, sh) /\ UNCHANGED <<sm_vars, app_vars, ui_vars, splash>>

SpecInput == Init /\ [][InputNext]_vars

\* ------------------------------------------------------------------------
\* Every public operation of the controller
\* ------------------------------------------------------------------------

\* What an is_app_running(app, max_retries) call of the caller meets: it
\* queries only in state READY.
RunningRetries == IF bluestacks_state = READY THEN RetryArgs ELSE {AppRunningRetries}
RunningScripts == IF bluestacks_state = READY THEN RetryScripts ELSE {[i \in 1..MaxPolls |-> "out"]}

\* The controller and a caller that uses all of its operations, and leaves
\* the App objects' state machines to the controller.  What a captured image
\* shows is an input of each capture.
CtlNext ==
    \/ \E launch \in LaunchInputs, max_retries \in RetryInputs, seen_at \in AttemptInputs, late_at \in AttemptInputs :
          OpenBluestacks(launch, max_retries, seen_at, late_at) /\ UNCHANGED <<sm_vars, app_vars, ui_vars, splash>>
    \/ \E cap \in CaptureOutcomes, shows \in BOOLEAN, conn \in ConnectInputs :
          WaitForLoadStep(cap, shows, conn) /\ UNCHANGED <<sm_vars, app_vars, ui_vars, splash>>
    \/ IsBluestacksLoading /\ UNCHANGED <<sm_vars, app_vars, ui_vars, splash>>
    \/ \E cap \in CaptureOutcomes, shows \in BOOLEAN, conn \in ConnectInputs :
          WhereStep(cap, shows, conn) /\ UNCHANGED <<sm_vars, app_vars, ui_vars, splash>>
    \/ \E found \in BOOLEAN, disc \in CloseOutcomes, wait \in {"ok", "raise"} :
          KillBluestacks(found, disc, wait) /\ UNCHANGED <<sm_vars, app_vars, ui_vars, splash>>
    \/ \E conn \in ConnectInputs :
          ConnectAdb(conn) /\ UNCHANGED <<sm_vars, app_vars, ui_vars, splash>>
    \/ \E disc \in CloseOutcomes :
          DisconnectAdb(disc) /\ UNCHANGED <<sm_vars, app_vars, ui_vars, splash>>
    \/ \E app \in Apps, max_retries \in RunningRetries, conn \in InputConnects, outs \in RunningScripts :
          IsAppRunning(app, max_retries, conn, outs) /\ UNCHANGED <<sm_vars, app_vars, ui_vars, splash>>
    \/ \E app \in Apps, timeout \in Timeouts, conn \in ConnectInputs :
          OpenApp(app, timeout, conn) /\ UNCHANGED <<sm_vars, app_vars, ui_vars, splash>>
    \/ \E monkey \in {"ok", "raise"}, conn \in ConnectInputs, outs \in QueryOutcomes, dt \in Dts :
          OpenAppIter(monkey, conn, outs, dt) /\ UNCHANGED <<sm_vars, app_vars, ui_vars, splash>>
    \/ OpenAppTimeout /\ UNCHANGED <<sm_vars, app_vars, ui_vars, splash>>
    \/ \E app \in Apps, timeout \in Timeouts, conn \in ConnectInputs :
          CloseApp(app, timeout, conn) /\ UNCHANGED <<sm_vars, app_vars, ui_vars, splash>>
    \/ \E stop \in {"ok", "raise"}, conn \in ConnectInputs, outs \in QueryOutcomes, dt \in Dts :
          CloseAppIter(stop, conn, outs, dt) /\ UNCHANGED <<sm_vars, app_vars, ui_vars, splash>>
    \/ CloseAppTimeout /\ UNCHANGED <<sm_vars, app_vars, ui_vars, splash>>
    \/ \E conn \in InputConnects, sh \in ShellInputs :
          TypeText(conn, sh) /\ UNCHANGED <<sm_vars, app_vars, ui_vars, splash>>
    \/ \E conn \in InputConnects, sh \in ShellInputs :
          PressEnter(conn, sh) /\ UNCHANGED <<sm_vars, app_vars, ui_vars, splash>>
    \/ \E conn \in InputConnects, sh \in ShellInputs :
          PressEsc(conn, sh) /\ UNCHANGED <<sm_vars, app_vars, ui_vars, splash>>
    \/ \E conn \in InputConnects, sh \in ShellInputs :
          GoHome(conn, sh) /\ UNCHANGED <<sm_vars, app_vars, ui_vars, splash>>
    \/ \E sh \in ShellInputs :
          ShowRecentApps(sh) /\ UNCHANGED <<sm_vars, app_vars, ui_vars, splash>>
    \/ \E conn \in InputConnects, sh \in ShellInputs :
          CaptureScreenshot(conn, sh) /\ UNCHANGED <<sm_vars, app_vars, ui_vars, splash>>

SpecCtl == Init /\ [][CtlNext]_vars

\* ------------------------------------------------------------------------
\* BluePyllElement.where and BluePyllElement.click
\* ------------------------------------------------------------------------

\* The image of an element: none, the loading splash image, another image.
ElementPaths == {None, "loading", "other"}
ClickTimes == 0..MaxTimes
\* max_retries arguments of where(): positive, so that find_ui_retries is
\* bounded.
WhereArgs == 1..MaxPolls

\* The image one pass of where() searches.  A screenshot passed by the
\* caller is used as it is; the loading image is searched in a capture of
\* the emulator window; any other image in controller.capture_screenshot().
element_capture(path, given, bs, avail, cap, conn, sh) ==
    IF given
    THEN [img |-> "image", available |-> avail, events |-> <<>>]
    ELSE IF path = "loading"
    THEN [img |-> cap, available |-> avail, events |-> <<"capture">>]
    ELSE LET k == capture_screenshot(bs, avail, conn, sh)
         IN  [img |-> IF k.outcome = "raised" THEN "raise"
                      ELSE IF k.ret = "bytes" THEN "image" ELSE "no_image",
              available |-> k.available,
              events |-> Append(k.events, "capture_screenshot")]

\* The tap commands click_coord joins into its one shell command: one, and
\* one more for each i in range(times - 1).
RECURSIVE tap_loop(_, _, _)
tap_loop(i, n, taps) == IF i >= n THEN taps ELSE tap_loop(i + 1, n, taps + 1)

tap_commands(times) == tap_loop(0, times - 1, 1)

\* BluePyllElement.click_coord(coords, times)
click_coord(bs, avail, times, conn, tap) ==
    IF bs # READY
    THEN [ret |-> "False", raised |-> FALSE, exc |-> None, available |-> avail, events |-> <<>>, taps |-> 0]
    ELSE LET c == connect_adb(avail, conn)
         IN  IF c.raised
             THEN [ret |-> None, raised |-> TRUE, exc |-> "ConnectError", available |-> c.available, events |-> c.events, taps |-> 0]
             ELSE IF c.ret # "True"
             THEN [ret |-> "False", raised |-> FALSE, exc |-> None, available |-> c.available, events |-> c.events, taps |-> 0]
             ELSE IF tap = "raise"
             THEN [ret |-> None, raised |-> TRUE, exc |-> "ShellError", available |-> c.available,
                   events |-> Append(c.events, "shell:input tap"), taps |-> tap_commands(times)]
             ELSE [ret |-> "True", raised |-> FALSE, exc |-> None, available |-> c.available,
                   events |-> Append(c.events, "shell:input tap"), taps |-> tap_commands(times)]

\* where() were it to search also in state CLOSED.
Where_ClosedSearches(path, given, max_retries) ==
    /\ pc = "idle"
    /\ LET op == "where"
       IN  IF path = None
           THEN /\ last' = Last(op, None, "returned", None, None, <<>>, 0)
                /\ UNCHANGED <<pc, frame>>
           ELSE /\ last' = Last(op, None, "running", None, None, <<>>, 0)
                /\ pc' = "element_where"
                /\ frame' = [NoFrame EXCEPT !.caller = op, !.path = path, !.given = given, !.max_retries = max_retries]
    /\ UNCHANGED <<bluestacks_state, available, running_apps, apps, app_state>>

\* element.where(screenshot_img_bytes, max_retries), called by the caller,
\* up to its loop.  given: a screenshot is passed.
Where(path, given, max_retries) ==
    /\ pc = "idle"
    /\ LET op == "where"
       IN  IF path = None
           THEN /\ last' = Last(op, None, "returned", None, None, <<>>, 0)
                /\ UNCHANGED <<pc, frame>>
           ELSE IF bluestacks_state = CLOSED
           THEN /\ last' = Last(op, None, "returned", None, None, <<>>, 0)
                /\ UNCHANGED <<pc, frame>>
           ELSE /\ last' = Last(op, None, "running", None, None, <<>>, 0)
                /\ pc' = "element_where"
                /\ frame' = [NoFrame EXCEPT !.caller = op, !.path = path, !.given = given, !.max_retries = max_retries]
    /\ UNCHANGED <<bluestacks_state, available, running_apps, apps, app_state>>

\* element.click(times, screenshot_img_bytes, max_tries), called by the
\* caller, up to the loop of the where() it calls.
Click(path, times, given, max_tries, conn) ==
    /\ pc = "idle"
    /\ LET op == "click"
           c == connect_adb(available, conn)
       IN  IF bluestacks_state # READY
           THEN /\ last' = Last(op, None, "returned", None, "False", <<>>, 0)
                /\ UNCHANGED <<pc, frame, available>>
           ELSE IF c.raised
           THEN /\ last' = Last(op, None, "raised", "ConnectError", None, c.events, 0)
                /\ available' = c.available
                /\ UNCHANGED <<pc, frame>>
           ELSE IF c.ret # "True"
           THEN /\ last' = Last(op, None, "returned", None, "False", c.events, 0)
                /\ available' = c.available
                /\ UNCHANGED <<pc, frame>>
           ELSE IF path = None
           THEN /\ last' = Last(op, None, "returned", None, "False", c.events, 0)
                /\ available' = c.available
                /\ UNCHANGED <<pc, frame>>
           ELSE /\ last' = Last(op, None, "running", None, None, c.events, 0)
                /\ available' = c.available
                /\ pc' = "element_where"
                /\ frame' = [NoFrame EXCEPT !.caller = op, !.path = path, !.given = given, !.max_retries = max_tries, !.times = times]
    /\ UNCHANGED <<bluestacks_state, running_apps, apps, app_state>>

\* One pass of the loop of where(), called by the caller or by click(): the
\* capture and the match.  shows: the image searched shows the element.
\* When where() ends inside click(), click() goes on: not found, False;
\* found, click_coord().  tap: what click_coord's shell command meets.
ElementWhereStep(cap, shows, conn, sh, tap) ==
    /\ pc = "element_where"
    /\ LET op == frame.caller
           e == element_capture(frame.path, frame.given, bluestacks_state, available, cap, conn, sh)
           r == where_iter(e.img, shows, frame.retries, frame.max_retries)
           ev == IF e.img = "image" THEN Append(e.events, "locate") ELSE e.events
           cc == click_coord(bluestacks_state, e.available, frame.times, conn, tap)
       IN  CASE r.res = "again" ->
                  /\ last' = Last(op, None, "running", None, None, ev, 0)
                  /\ frame' = [frame EXCEPT !.retries = r.retries, !.tick = 1 - frame.tick]
                  /\ available' = e.available
                  /\ UNCHANGED pc
             [] r.res = "raise" ->
                  /\ last' = Last(op, None, "raised", "Exception", None, ev, 0)
                  /\ pc' = "idle"
                  /\ frame' = NoFrame
                  /\ available' = e.available
             [] r.res = "none" ->
                  /\ last' = Last(op, None, "returned", None, IF op = "click" THEN "False" ELSE None, ev, 0)
                  /\ pc' = "idle"
                  /\ frame' = NoFrame
                  /\ available' = e.available
             [] r.res = "box" /\ op = "where" ->
                  /\ last' = Last(op, None, "returned", None, "coord", ev, 0)
                  /\ pc' = "idle"
                  /\ frame' = NoFrame
                  /\ available' = e.available
             [] r.res = "box" /\ op = "click" ->
                  /\ last' = IF cc.raised
                             THEN Last(op, None, "raised", cc.exc, None, ev \o cc.events, cc.taps)
                             ELSE Last(op, None, "returned", None, cc.ret, ev \o cc.events, cc.taps)
                  /\ pc' = "idle"
                  /\ frame' = NoFrame
                  /\ available' = cc.available
    /\ UNCHANGED <<bluestacks_state, running_apps, apps, app_state>>

\* What where()'s own capture meets: nothing when a screenshot is passed.
WhereCaptures == IF pc = "element_where" /\ ~frame.given /\ frame.path = "loading" THEN CaptureOutcomes ELSE {"image"}
WhereShells == IF pc = "element_where" /\ ~frame.given /\ frame.path = "other" /\ bluestacks_state = READY THEN ShellOutcomes ELSE {"out"}
TapShells == IF pc = "element_where" /\ frame.caller = "click" THEN ShellOutcomes ELSE {"out"}

\* The controller, its emulator operations, and where() and click() on an
\* element.  What an image shows is an input of each match.
UiNext ==
    \/ \E launch \in LaunchInputs, max_retries \in RetryInputs, seen_at \in AttemptInputs, late_at \in AttemptInputs :
          OpenBluestacks(launch, max_retries, seen_at, late_at) /\ UNCHANGED <<sm_vars, app_vars, ui_vars, splash>>
    \/ \E cap \in CaptureOutcomes, shows \in BOOLEAN, conn \in ConnectInputs :
          WaitForLoadStep(cap, shows, conn) /\ UNCHANGED <<sm_vars, app_vars, ui_vars, splash>>
    \/ \E found \in BOOLEAN, disc \in CloseOutcomes, wait \in {"ok", "raise"} :
          KillBluestacks(found, disc, wait) /\ UNCHANGED <<sm_vars, app_vars, ui_vars, splash>>
    \/ \E disc \in CloseOutcomes :
          DisconnectAdb(disc) /\ UNCHANGED <<sm_vars, app_vars, ui_vars, splash>>
    \/ \E path \in ElementPaths, given \in BOOLEAN, max_retries \in WhereArgs :
          Where(path, given, max_retries) /\ UNCHANGED <<sm_vars, app_vars, ui_vars, splash>>
    \/ \E path \in ElementPaths, times \in ClickTimes, given \in BOOLEAN, max_tries \in WhereArgs, conn \in InputConnects :
          Click(path, times, given, max_tries, conn) /\ UNCHANGED <<sm_vars, app_vars, ui_vars, splash>>
    \/ \E cap \in WhereCaptures, shows \in BOOLEAN, conn \in ConnectInputs, sh \in WhereShells, tap \in TapShells :
          ElementWhereStep(cap, shows, conn, sh, tap) /\ UNCHANGED <<sm_vars, app_vars, ui_vars, splash>>

\* The caller thread keeps running its call.
ElementWhereRuns ==
    \E cap \in WhereCaptures, shows \in BOOLEAN, conn \in ConnectInputs, sh \in WhereShells, tap \in TapShells :
        ElementWhereStep(cap, shows, conn, sh, tap) /\ UNCHANGED <<sm_vars, app_vars, ui_vars, splash>>

SpecUi ==
    /\ Init
    /\ [][UiNext]_vars
    /\ WF_vars(ElementWhereRuns)

\* ------------------------------------------------------------------------
\* BluePyllController.click_elements
\* ------------------------------------------------------------------------

\* The longest list of elements passed to click_elements
MaxElements == 2
\* The labels of the elements of a list, the first element's first
LabelNames == <<"e1", "e2", "e3", "e4">>
Labels == {LabelNames[i] : i \in 1..MaxElements}
\* What where() gives click(): the element's coordinates, None, or it raises.
WhereResults == {"box", "none", "raise"}

\* BluePyllElement.click() as click_elements calls it, with times left at 1.
\* el: the element's label and what its click() meets, that is what the
\* transport's connect() does, what where() gives, and what the shell
\* command of click_coord() does.
element_click(bs, avail, el) ==
    IF bs # READY
    THEN [ret |-> "False", raised |-> FALSE, exc |-> None, available |-> avail, events |-> <<>>, taps |-> 0]
    ELSE LET c == connect_adb(avail, el.conn)
             cc == click_coord(bs, c.available, 1, el.conn, el.tap)
         IN  IF c.raised
             THEN [ret |-> None, raised |-> TRUE, exc |-> "ConnectError", available |-> c.available, events |-> c.events, taps |-> 0]
             ELSE IF c.ret # "True"
             THEN [ret |-> "False", raised |-> FALSE, exc |-> None, available |-> c.available, events |-> c.events, taps |-> 0]
             ELSE CASE el.where = "raise" ->
                         [ret |-> None, raised |-> TRUE, exc |-> "Exception", available |-> c.available, events |-> Append(c.events, "where:raise"), taps |-> 0]
                    [] el.where = "none" ->
                         [ret |-> "False", raised |-> FALSE, exc |-> None, available |-> c.available, events |-> Append(c.events, "where:not_found"), taps |-> 0]
                    [] el.where = "box" ->
                         [cc EXCEPT !.events = c.events \o <<"where:found">> \o @]

\* click_elements were it to click every element of the list, and answer
\* whether one of the clicks succeeded.
RECURSIVE click_elements_loop_ClicksAll(_, _, _, _, _, _)
click_elements_loop_ClicksAll(ui_elements, i, bs, avail, events, taps) ==
    IF i > Len(ui_elements)
    THEN [ret |-> IF \E j \in 1..Len(events) : events[j] = "click:True" THEN "True" ELSE "False",
          raised |-> FALSE, exc |-> None, available |-> avail, events |-> events, taps |-> taps]
    ELSE LET k == element_click(bs, avail, ui_elements[i])
             ev == Append(events, "try:" \o ui_elements[i].label) \o k.events
         IN  IF k.raised
             THEN [ret |-> None, raised |-> TRUE, exc |-> k.exc, available |-> k.available, events |-> ev, taps |-> taps + k.taps]
             ELSE click_elements_loop_ClicksAll(ui_elements, i + 1, bs, k.available, Append(ev, "click:" \o k.ret), taps + k.taps)

\* The any(...) of click_elements from the i-th element on: the generator
\* yields click() of one element after the other, and any() stops at the
\* first that is true.  An exception of a click() leaves click_elements.
RECURSIVE click_elements_loop(_, _, _, _, _, _)
click_elements_loop(ui_elements, i, bs, avail, events, taps) ==
    IF i > Len(ui_elements)
    THEN [ret |-> "False", raised |-> FALSE, exc |-> None, available |-> avail, events |-> events, taps |-> taps]
    ELSE LET k == element_click(bs, avail, ui_elements[i])
             ev == Append(events, "try:" \o ui_elements[i].label) \o k.events
         IN  IF k.raised
             THEN [ret |-> None, raised |-> TRUE, exc |-> k.exc, available |-> k.available, events |-> ev, taps |-> taps + k.taps]
             ELSE IF k.ret = "True"
             THEN [ret |-> "True", raised |-> FALSE, exc |-> None, available |-> k.available, events |-> Append(ev, "click:True"), taps |-> taps + k.taps]
             ELSE click_elements_loop(ui_elements, i + 1, bs, k.available, Append(ev, "click:" \o k.ret), taps + k.taps)

\* The labels of the elements of a list, in its order.
LabelsOf(ui_elements) == [i \in 1..Len(ui_elements) |-> ui_elements[i].label]

\* click_elements(ui_elements), called by the caller.
ClickElements(ui_elements) ==
    /\ pc = "idle"
    /\ LET op == "click_elements"
           r == click_elements_loop(ui_elements, 1, bluestacks_state, available, <<>>, 0)
       IN  /\ available' = r.available
           /\ last' = IF r.raised
                      THEN Last(op, None, "raised", r.exc, None, r.events, r.taps)
                      ELSE Last(op, None, "returned", None, r.ret, r.events, r.taps)
           /\ ui_last' = [op |-> op, args |-> <<LabelsOf(ui_elements)>>,
                          outcome |-> IF r.raised THEN "raised" ELSE "returned",
                          exc |-> r.exc, ret |-> <<r.ret>>]
    /\ UNCHANGED <<pc, frame, bluestacks_state, running_apps, apps, app_state, element, ref_window_size>>

\* What the click() of an element meets: nothing unless the emulator is
\* READY, and a shell command only when where() gave coordinates.
ElementScripts ==
    IF bluestacks_state = READY
    THEN {el \in [where : WhereResults, tap : {"ok", "raise"}] : el.where # "box" => el.tap = "ok"}
    ELSE [where : {"none"}, tap : {"ok"}]
\* The lists the caller passes: up to MaxElements elements, and what the
\* transport's connect() does during the call.
ClickLists ==
    IF pc = "idle"
    THEN UNION {{[i \in 1..n |-> [label |-> LabelNames[i], where |-> w[i].where, tap |-> w[i].tap, conn |-> conn]] :
                    w \in [1..n -> ElementScripts], conn \in InputConnects} : n \in 0..MaxElements}
    ELSE {}

\* The controller, its emulator operations, and click_elements on lists of
\* elements.
ClicksNext ==
    \/ \E launch \in LaunchInputs, max_retries \in RetryInputs, seen_at \in AttemptInputs, late_at \in AttemptInputs :
          OpenBluestacks(launch, max_retries, seen_at, late_at) /\ UNCHANGED <<sm_vars, app_vars, ui_vars, splash>>
    \/ \E cap \in CaptureOutcomes, shows \in BOOLEAN, conn \in ConnectInputs :
          WaitForLoadStep(cap, shows, conn) /\ UNCHANGED <<sm_vars, app_vars, ui_vars, splash>>
    \/ \E found \in BOOLEAN, disc \in CloseOutcomes, wait \in {"ok", "raise"} :
          KillBluestacks(found, disc, wait) /\ UNCHANGED <<sm_vars, app_vars, ui_vars, splash>>
    \/ \E disc \in CloseOutcomes :
          DisconnectAdb(disc) /\ UNCHANGED <<sm_vars, app_vars, ui_vars, splash>>
    \/ \E ui_elements \in ClickLists :
          ClickElements(ui_elements) /\ UNCHANGED <<sm_vars, app_vars, splash>>

SpecClicks == Init /\ [][ClicksNext]_vars

\* The arguments that matter: those of a call the caller can make.
ConstructTypes == IF ~element.built /\ ui_last = NoCall THEN ElementTypes ELSE {}
CheckColors == IF element.built /\ ui_last.op = "__init__" THEN Colors ELSE {}

\* An element and its caller.
ElementNext ==
    \/ \E ele_type \in ConstructTypes, position \in Positions, size \in Sizes, path \in PathArgs, is_static \in BOOLEAN, confidence \in ConfidenceArgs, ele_txt \in TextArgs, pixel_color \in ColorArgs :
          Construct(ele_type, position, size, path, is_static, confidence, ele_txt, pixel_color) /\ UNCHANGED <<sm_vars, app_vars, ctl_vars>>
    \/ Discard /\ UNCHANGED <<sm_vars, app_vars, ctl_vars>>
    \/ \E target_color \in CheckColors, pixel \in Colors, tolerance \in Tolerances :
          CheckPixelColor(target_color, pixel, tolerance) /\ UNCHANGED <<sm_vars, app_vars, ctl_vars>>

InitElement == UiInit /\ SMUnused /\ AppUnused /\ CtlUnused

SpecElement == InitElement /\ [][ElementNext]_vars

\* The controller's ref_window_size property and its caller.
RefNext ==
    \/ \E width \in Dims, height \in Dims :
          SetRefWindowSize(width, height) /\ UNCHANGED <<sm_vars, app_vars, ctl_vars>>
    \/ GetRefWindowSize /\ UNCHANGED <<sm_vars, app_vars, ctl_vars>>

InitRef == RefInit /\ SMUnused /\ AppUnused /\ CtlUnused

SpecRef == InitRef /\ [][RefNext]_vars

\* A stand-alone StateMachine and its caller.
SMNext ==
    \/ \E state \in States, on_enter \in HandlerArgs, on_exit \in HandlerArgs :
          RegisterHandler(state, on_enter, on_exit) /\ UNCHANGED <<app_vars, ctl_vars, ui_vars>>
    \/ \E target \in States, ignore_validation \in BOOLEAN, exit_raises \in BOOLEAN, enter_raises \in BOOLEAN :
          TransitionTo(target, ignore_validation, exit_raises, enter_raises) /\ UNCHANGED <<app_vars, ctl_vars, ui_vars>>

InitSM == SMInit /\ AppUnused /\ CtlUnused /\ UiUnused

SpecSM == InitSM /\ [][SMNext]_vars

\* A StateMachine and the register_handler calls made on it.
RegNext ==
    \E state \in States, on_enter \in HandlerArgs, on_exit \in HandlerArgs :
        RegisterHandlerLogged(state, on_enter, on_exit) /\ UNCHANGED <<app_vars, ctl_vars, ui_vars>>

SpecReg == InitSM /\ [][RegNext]_vars

\* Two BluePyllApp records and their caller.
AppNext ==
    \/ \E target \in States, ignore_validation \in BOOLEAN :
          App1TransitionTo(target, ignore_validation) /\ UNCHANGED <<sm_vars, ctl_vars, ui_vars>>
    \/ \E target \in States, ignore_validation \in BOOLEAN :
          App2TransitionTo(target, ignore_validation) /\ UNCHANGED <<sm_vars, ctl_vars, ui_vars>>
    \/ AppCompare /\ UNCHANGED <<sm_vars, ctl_vars, ui_vars>>

InitApp == AppInit /\ SMUnused /\ CtlUnused /\ UiUnused

SpecApp == InitApp /\ [][AppNext]_vars

(***************************************************************************)
(* Properties.                                                             *)
(***************************************************************************)
Has(seq, e) == \E i \in 1..Len(seq) : seq[i] = e

\* The adjacency table as the specification states it.
StatedTable ==
    [s \in States |->
        IF s = CLOSED THEN {LOADING}
        ELSE IF s = LOADING THEN {CLOSED, READY}
        ELSE {CLOSED, LOADING}]

\* C1: transition_to(t) without override, to a target that is not in
\* transitions[s] (a self-loop, or CLOSED -> READY), fails with StateError,
\* leaves current_state = s and invokes no handler.
C1_InvalidTransitionRejected ==
    ( /\ sm_last.op = "transition_to"
      /\ ~sm_last.ignore_validation
      /\ \/ sm_last.target = sm_last.from
         \/ (sm_last.from = CLOSED /\ sm_last.target = READY) )
    => /\ sm_last.outcome = "StateError"
       /\ current_state = sm_last.from
       /\ sm_last.calls = <<>>

\* A rejected CLOSED -> READY on a machine that has an on_exit handler for
\* CLOSED and an on_enter handler for READY.
C1_Witness ==
    /\ sm_last.op = "transition_to"
    /\ ~sm_last.ignore_validation
    /\ sm_last.from = CLOSED
    /\ sm_last.target = READY
    /\ sm_last.outcome = "StateError"
    /\ state_handlers[CLOSED]["on_exit"] # None
    /\ state_handlers[READY]["on_enter"] # None

\* C2: both kinds' tables are CLOSED->{LOADING}, LOADING->{CLOSED, READY},
\* READY->{CLOSED, LOADING}; transition_to(t) without override along a pair
\* of the table is never rejected, fails only if a handler it invoked raised,
\* and when it returns it returns s with current_state = t.
C2_ValidTransitionSucceeds ==
    /\ \A k \in Kinds : get_transitions(k) = StatedTable
    /\ ( /\ sm_last.op = "transition_to"
         /\ ~sm_last.ignore_validation
         /\ sm_last.target \in StatedTable[sm_last.from] )
       => /\ sm_last.outcome \in {"returned", "HandlerError"}
          /\ sm_last.outcome = "HandlerError" => sm_last.calls # <<>>
          /\ sm_last.outcome = "returned" =>
                 current_state = sm_last.target /\ sm_last.ret = sm_last.from

\* An app-kind machine that went LOADING -> READY.
C2_Witness ==
    /\ sm_kind = "AppLifecycleState"
    /\ sm_last.op = "transition_to"
    /\ ~sm_last.ignore_validation
    /\ sm_last.from = LOADING
    /\ sm_last.target = READY
    /\ sm_last.outcome = "returned"
    /\ current_state = READY

\* C3: transition_to(t, ignore_validation=True) is never rejected, whatever s
\* and t; it fails only if a handler it invoked raised, and when it returns
\* it returns s with current_state = t.
C3_OverrideAlwaysSucceeds ==
    ( sm_last.op = "transition_to" /\ sm_last.ignore_validation )
    => /\ sm_last.outcome \in {"returned", "HandlerError"}
       /\ sm_last.outcome = "HandlerError" => sm_last.calls # <<>>
       /\ sm_last.outcome = "returned" =>
              current_state = sm_last.target /\ sm_last.ret = sm_last.from

\* An overridden CLOSED -> READY that returned.
C3_Witness ==
    /\ sm_last.op = "transition_to"
    /\ sm_last.ignore_validation
    /\ sm_last.from = CLOSED
    /\ sm_last.target = READY
    /\ sm_last.outcome = "returned"
    /\ sm_last.ret = CLOSED
    /\ current_state = READY

\* C4: in an accepted transition s -> t the handler invocations are exactly:
\* the on_exit of s (if registered), once, while current_state is s; then the
\* on_enter of t (if registered), once, while current_state is t.
C4_HandlerOrder ==
    ( sm_last.op = "transition_to" /\ sm_last.outcome = "returned" )
    => LET ex == state_handlers[sm_last.from]["on_exit"]
           en == state_handlers[sm_last.target]["on_enter"]
       IN  /\ current_state = sm_last.target
           /\ sm_last.calls =
                 (IF ex # None
                  THEN <<[slot |-> "on_exit", handler |-> ex, at |-> sm_last.from]>>
                  ELSE <<>>)
                 \o
                 (IF en # None
                  THEN <<[slot |-> "on_enter", handler |-> en, at |-> sm_last.target]>>
                  ELSE <<>>)

\* An accepted transition between two different states that ran an on_exit
\* and an on_enter handler.
C4_Witness ==
    /\ sm_last.op = "transition_to"
    /\ sm_last.outcome = "returned"
    /\ sm_last.from # sm_last.target
    /\ Len(sm_last.calls) = 2

\* C5: when the on_enter handler of the target raises, transition_to ends
\* with that exception (no value is returned) and current_state is already
\* the target.
C5_EnterRaisesAfterUpdate ==
    ( /\ sm_last.op = "transition_to"
      /\ sm_last.outcome = "HandlerError"
      /\ sm_last.calls # <<>>
      /\ sm_last.calls[Len(sm_last.calls)].slot = "on_enter" )
    => /\ current_state = sm_last.target
       /\ sm_last.ret = None

\* A validated CLOSED -> LOADING whose on_enter handler raised.
C5_Witness ==
    /\ sm_last.op = "transition_to"
    /\ ~sm_last.ignore_validation
    /\ sm_last.outcome = "HandlerError"
    /\ sm_last.from = CLOSED
    /\ sm_last.target = LOADING
    /\ current_state = LOADING
    /\ sm_last.calls # <<>>
    /\ sm_last.calls[Len(sm_last.calls)].slot = "on_enter"

\* The handler the latest register_handler call for state s that specified
\* slot k gave; None if no call specified it.
LastSpecified(calls, s, k) ==
    LET idx == {i \in 1..Len(calls) : calls[i].state = s /\ calls[i][k] # None}
    IN  IF idx = {} THEN None
        ELSE calls[CHOOSE i \in idx : \A j \in idx : j <= i][k]

\* C6: after any sequence of register_handler calls, the on_enter (on_exit)
\* registered for a state is the one of the latest call for that state that
\* specified an on_enter (on_exit), and none if no call specified one.
C6_RegisterMerges ==
    \A s \in States : \A k \in Slots :
        state_handlers[s][k] = LastSpecified(reg_calls, s, k)

\* Two calls for one state: the first gave on_enter only, the second on_exit
\* only, and the on_enter of the first is still registered.
C6_Witness ==
    /\ Len(reg_calls) = 2
    /\ reg_calls[1].state = reg_calls[2].state
    /\ reg_calls[1].on_enter # None
    /\ reg_calls[1].on_exit = None
    /\ reg_calls[2].on_enter = None
    /\ reg_calls[2].on_exit # None
    /\ state_handlers[reg_calls[1].state]["on_enter"] = reg_calls[1].on_enter
    /\ state_handlers[reg_calls[1].state]["on_exit"] = reg_calls[2].on_exit

\* C7: app1 == app2 evaluates to true exactly when the two records have the
\* same name, the same package and the same current state.
C7_AppEquality ==
    cmp.done =>
        ( cmp.result <=>
            /\ cmp.left.app_name = cmp.right.app_name
            /\ cmp.left.package_name = cmp.right.package_name
            /\ cmp.left.state = cmp.right.state )

\* Two records with the same name and package compared unequal after one of
\* them had moved to LOADING.
C7_Witness ==
    /\ cmp.done
    /\ cmp.left.app_name = cmp.right.app_name
    /\ cmp.left.package_name = cmp.right.package_name
    /\ cmp.left.state = LOADING
    /\ cmp.right.state = CLOSED
    /\ ~cmp.result

(***************************************************************************)
(* open_app and close_app.                                                 *)
(***************************************************************************)
QueryEvents == {"query:" \o o : o \in ShellOutcomes}

\* Every b in seq has an a somewhere before it.
Before(seq, a, b) ==
    \A j \in 1..Len(seq) : seq[j] = b => \E i \in 1..(j - 1) : seq[i] = a

\* C8: when the emulator state is CLOSED or LOADING, a call of open_app or of
\* close_app, on any app, is a no-op: it returns at once without an
\* exception, issues no shell command (and touches the transport in no
\* way), and leaves running_apps and every app's lifecycle state as they
\* were.
C8_NotReadyIsNoOp ==
    [][(/\ pc = "idle"
        /\ last'.op \in {"open_app", "close_app"}
        /\ bluestacks_state \in {CLOSED, LOADING})
       => (/\ pc' = "idle"
           /\ last'.outcome = "returned"
           /\ last'.exc = None
           /\ last'.events = <<>>
           /\ last'.cmds = 0
           /\ running_apps' = running_apps
           /\ app_state' = app_state
           /\ available' = available
           /\ bluestacks_state' = bluestacks_state)]_vars

\* close_app(a1) has returned with the emulator LOADING, a1 being LOADING and
\* in running_apps.
C8_Witness ==
    /\ pc = "idle"
    /\ last.op = "close_app"
    /\ last.app = "a1"
    /\ last.outcome = "returned"
    /\ last.events = <<>>
    /\ bluestacks_state = LOADING
    /\ running_apps = <<"a1">>
    /\ app_state["a1"] = LOADING

\* C9: in open_app's polling loop (the emulator is READY and connect_adb()
\* returned True), every iteration issues the launch command before any
\* running-check query; an iteration that observes the app running while
\* the app's state is CLOSED ends open_app without an exception with the
\* app's state LOADING and the app appended to running_apps; and the app's
\* state and running_apps change only in an iteration whose check returned
\* True, after that check.
C9_OpenAppObservedRunning ==
    [][(pc = "open_app" /\ last'.cmds = last.cmds + 1)
       => (/\ last'.op = "open_app"
           /\ bluestacks_state = READY /\ available
           /\ last'.events[1] = "shell:monkey"
           /\ \A q \in QueryEvents : Before(last'.events, "shell:monkey", q)
           /\ (Has(last'.events, "is_app_running:True") /\ app_state[frame.app] = CLOSED)
                => (/\ last'.outcome = "returned"
                    /\ pc' = "idle"
                    /\ app_state' = [app_state EXCEPT ![frame.app] = LOADING]
                    /\ running_apps' = Append(running_apps, frame.app))
           /\ (app_state' # app_state \/ running_apps' # running_apps)
                => (/\ Has(last'.events, "query:out")
                    /\ Before(last'.events, "query:out", "is_app_running:True")
                    /\ Before(last'.events, "is_app_running:True", "transition:LOADING")
                    /\ Before(last'.events, "is_app_running:True", "append")
                    /\ Has(last'.events, "transition:LOADING")
                    /\ Has(last'.events, "append")))]_vars

\* open_app(a1) saw a1, then CLOSED, running on its second iteration: a1 is
\* LOADING and in running_apps.
C9_Witness ==
    /\ pc = "idle"
    /\ last.op = "open_app"
    /\ last.app = "a1"
    /\ last.outcome = "returned"
    /\ last.cmds = 2
    /\ Has(last.events, "is_app_running:True")
    /\ Has(last.events, "append")
    /\ app_state["a1"] = LOADING
    /\ running_apps = <<"a1">>
    /\ bluestacks_state = READY
    /\ available

\* C10: with the emulator READY and the transport connected, a close_app
\* iteration that observes the app not running, whatever the app's
\* lifecycle state (CLOSED, LOADING or READY), ends close_app without an
\* exception, the app's state CLOSED and the app absent from running_apps.
C10_CloseAppObservedNotRunning ==
    (last.op = "close_app" /\ Has(last.events, "is_app_running:False"))
        => (/\ last.outcome = "returned"
            /\ last.exc = None
            /\ app_state[last.app] = CLOSED
            /\ ~Has(running_apps, last.app))

(***************************************************************************)
(* is_app_running.                                                         *)
(***************************************************************************)
\* The queries an operation made
Queries(events) == {i \in 1..Len(events) : events[i] \in QueryEvents}

\* C11: with the emulator READY and the transport connected,
\* is_app_running(app, max_retries = n) returns True exactly when one of the
\* n window-focus queries meets non-empty output, a query that raises being
\* one failed attempt after which the next is made; and it returns False
\* only after n queries, none of which met output.
C11_IsAppRunningRetries ==
    [][\A app \in Apps, n \in RetryArgs, outs \in RetryScripts :
          (/\ bluestacks_state = READY
           /\ available
           /\ IsAppRunning(app, n, None, outs))
          => (/\ last'.outcome = "returned"
              /\ last'.ret \in {"True", "False"}
              /\ last'.ret = "True" <=> (\E i \in 1..n : outs[i] = "out")
              /\ last'.ret = "False" => Cardinality(Queries(last'.events)) = n)]_vars

\* ------------------------------------------------------------------------
\* kill_bluestacks and open_bluestacks
\* ------------------------------------------------------------------------

\* How many times e occurs in seq.
Occurrences(seq, e) == Cardinality({i \in 1..Len(seq) : seq[i] = e})

\* A step in which the caller calls the controller method op.
CallOf(op) ==
    /\ pc = "idle"
    /\ splash' = splash
    /\ last'.op = op

\* C12: kill_bluestacks from LOADING or READY disconnects the transport
\* before it kills the process: the process is killed only with the
\* transport no longer available, and after the close when there was one to
\* close; when the disconnect fails the call raises, nothing is killed and
\* the state is kept; the state becomes CLOSED exactly when the call
\* returns True.
C12_KillDisconnectsFirst ==
    [][(CallOf("kill_bluestacks") /\ bluestacks_state \in {LOADING, READY})
       => LET ev == last'.events
          IN  /\ Has(ev, "kill")
                   => /\ ~available'
                      /\ Before(ev, "process_iter", "kill")
                      /\ available => Before(ev, "close", "kill")
              /\ (available /\ available')
                   => (Has(ev, "close")
                         => /\ last'.outcome = "raised"
                            /\ last'.exc = "ValueError"
                            /\ ~Has(ev, "kill")
                            /\ bluestacks_state' = bluestacks_state)
              /\ bluestacks_state' = CLOSED
                   <=> (last'.outcome = "returned" /\ last'.ret = "True")
              /\ bluestacks_state' \in {bluestacks_state, CLOSED}]_vars

\* kill_bluestacks has returned True after closing the transport and killing
\* the process.
C12_Witness ==
    /\ last.op = "kill_bluestacks"
    /\ last.outcome = "returned"
    /\ last.ret = "True"
    /\ Has(last.events, "kill")
    /\ Before(last.events, "close", "kill")
    /\ bluestacks_state = CLOSED
    /\ ~available

\* C13: kill_bluestacks in state CLOSED returns True and does nothing: no
\* process is listed or killed, the transport is not touched and the state
\* stays CLOSED.
C13_KillClosedIsNoOp ==
    [][(CallOf("kill_bluestacks") /\ bluestacks_state = CLOSED)
       => /\ last'.outcome = "returned"
          /\ last'.ret = "True"
          /\ last'.events = <<>>
          /\ UNCHANGED <<bluestacks_state, available, pc, frame, running_apps, app_state>>]_vars

\* kill_bluestacks has returned True in state CLOSED with the transport
\* still available.
C13_Witness ==
    /\ last.op = "kill_bluestacks"
    /\ last.outcome = "returned"
    /\ last.ret = "True"
    /\ last.events = <<>>
    /\ bluestacks_state = CLOSED
    /\ available

\* C14: open_bluestacks in state LOADING or READY launches nothing, polls
\* nothing and leaves the state as it is.
C14_OpenNotClosedIsNoOp ==
    [][(CallOf("open_bluestacks") /\ bluestacks_state \in {LOADING, READY})
       => /\ last'.outcome = "returned"
          /\ last'.events = <<>>
          /\ UNCHANGED <<bluestacks_state, available, pc, frame>>]_vars

\* open_bluestacks has returned at once in state LOADING.
C14_Witness ==
    /\ last.op = "open_bluestacks"
    /\ last.outcome = "returned"
    /\ last.events = <<>>
    /\ bluestacks_state = LOADING
    /\ pc = "idle"

C17_WaitForLoadEnds == (pc = "wait_for_load") ~> (pc # "wait_for_load")

\* C18: a step that takes the emulator state to READY connects the transport
\* in that step, after the transition's handler starts: once when the
\* transport was not available, not at all when it was.
C18_ReadyConnects ==
    [][(bluestacks_state # READY /\ bluestacks_state' = READY)
       => LET ev == last'.events
          IN  /\ Has(ev, "transition:READY")
              /\ Occurrences(ev, "connect") = (IF available THEN 0 ELSE 1)
              /\ ~available => Before(ev, "transition:READY", "connect")]_vars

\* The state has become READY and the transport was connected in the same
\* step.
C18_Witness ==
    /\ bluestacks_state = READY
    /\ Has(last.events, "connect")
    /\ Before(last.events, "transition:READY", "connect")
    /\ available

\* A step that ends where()'s search of a direct is_bluestacks_loading()
\* call with the splash not found.
SplashNotFound ==
    /\ pc \in {"idle", "where"}
    /\ splash' = splash
    /\ last'.op = "is_bluestacks_loading"
    /\ Has(last'.events, "where:not_found")

\* A step that ends where()'s search of a direct is_bluestacks_loading()
\* call with the splash found.
SplashFound ==
    /\ pc = "where"
    /\ splash' = splash
    /\ last'.op = "is_bluestacks_loading"
    /\ Has(last'.events, "where:found")

\* What the state becomes when the splash is not found.
AfterNotFound(state) == IF state = LOADING THEN READY ELSE state

\* C19 as stated: when the splash is not found the state goes from LOADING
\* to READY or else stays, and the call returns False; when it is found in
\* state LOADING the state stays LOADING and the call returns True.
C19_NotFoundReturnsFalse ==
    [][/\ SplashNotFound
          => /\ bluestacks_state' = AfterNotFound(bluestacks_state)
             /\ last'.outcome = "returned"
             /\ last'.ret = "False"
       /\ (SplashFound /\ bluestacks_state = LOADING)
          => /\ bluestacks_state' = LOADING
             /\ last'.outcome = "returned"
             /\ last'.ret = "True"]_vars

\* C19: as above, except that the call raises instead of returning False
\* when the state goes from LOADING to READY and the READY handler's
\* connect() raises.
C19_NotFoundReturnsFalseOrConnectRaises ==
    [][/\ SplashNotFound
          => /\ bluestacks_state' = AfterNotFound(bluestacks_state)
             /\ \/ last'.outcome = "returned" /\ last'.ret = "False"
                \/ /\ last'.outcome = "raised"
                   /\ last'.exc = "ConnectError"
                   /\ bluestacks_state = LOADING
                   /\ ~available
                   /\ Has(last'.events, "connect")
       /\ (SplashFound /\ bluestacks_state = LOADING)
          => /\ bluestacks_state' = LOADING
             /\ last'.outcome = "returned"
             /\ last'.ret = "True"]_vars

\* is_bluestacks_loading() has returned False after taking the state from
\* LOADING to READY.
C19_Witness ==
    /\ last.op = "is_bluestacks_loading"
    /\ last.outcome = "returned"
    /\ last.ret = "False"
    /\ Has(last.events, "transition:READY")
    /\ Before(last.events, "where:not_found", "transition:READY")
    /\ bluestacks_state = READY

\* C20: is_bluestacks_loading() called in state CLOSED with the splash on
\* the screen takes the state to LOADING.
C20_SplashSeenFromClosed ==
    [][(CallOf("is_bluestacks_loading") /\ bluestacks_state = CLOSED /\ splash)
       => /\ bluestacks_state' = LOADING
          /\ Has(last'.events, "where:found")]_vars

\* ------------------------------------------------------------------------
\* connect_adb and disconnect_adb
\* ------------------------------------------------------------------------

\* C21: connect_adb() calls connect() once when the transport is not
\* available and not at all when it is, and when it returns it returns True
\* exactly if the transport is then available; disconnect_adb() calls
\* close() once when the transport is available and not at all when it is
\* not, and returns True exactly if the transport is then not available.
C21_AdbWrappers ==
    [][/\ CallOf("connect_adb")
          => /\ Occurrences(last'.events, "connect") = (IF available THEN 0 ELSE 1)
             /\ ~Has(last'.events, "close")
             /\ last'.outcome = "returned"
                  => /\ last'.ret \in {"True", "False"}
                     /\ last'.ret = "True" <=> available'
       /\ CallOf("disconnect_adb")
          => /\ Occurrences(last'.events, "close") = (IF available THEN 1 ELSE 0)
             /\ ~Has(last'.events, "connect")
             /\ last'.outcome = "returned"
             /\ last'.ret \in {"True", "False"}
             /\ last'.ret = "True" <=> ~available']_vars

\* disconnect_adb() has called close(), found the transport still available
\* and returned False.
C21_Witness ==
    /\ last.op = "disconnect_adb"
    /\ last.outcome = "returned"
    /\ last.ret = "False"
    /\ last.events = <<"close">>
    /\ available

\* ------------------------------------------------------------------------
\* Input injection
\* ------------------------------------------------------------------------

\* C22: each input-injection action, called in state READY with the
\* connection established, sends exactly one shell command, its own; called
\* in state CLOSED or LOADING it sends none, calls nothing, changes nothing
\* and returns.
C22_InputOneCommand ==
    [][\A op \in InputOps :
          CallOf(op)
          => /\ (bluestacks_state = READY /\ available')
                  => /\ ShellCount(last'.events) = 1
                     /\ Has(last'.events, "shell:" \o InputCommands[op])
             /\ bluestacks_state \in {CLOSED, LOADING}
                  => /\ last'.events = <<>>
                     /\ last'.outcome = "returned"
                     /\ UNCHANGED <<pc, frame, bluestacks_state, available, running_apps, app_state>>]_vars

\* type_text has connected the transport and sent its one command.
C22_Witness ==
    /\ last.op = "type_text"
    /\ last.outcome = "returned"
    /\ last.events = <<"connect", "shell:input text">>
    /\ bluestacks_state = READY
    /\ available

\* C23: an input-injection action sends a shell command only with the
\* transport available.
C23_NoCommandUnconnected ==
    [][\A op \in InputOps :
          (CallOf(op) /\ ShellCount(last'.events) > 0) => available']_vars

\* ------------------------------------------------------------------------
\* Elements
\* ------------------------------------------------------------------------

\* C24: where() on an element with no image, in any state, or in state
\* CLOSED, returns None at once, capturing and matching nothing; otherwise
\* it enters its loop, so that a match is attempted only on an element that
\* has an image and in state LOADING or READY.
C24_WhereShortCircuits ==
    [][/\ \A path \in ElementPaths, given \in BOOLEAN, max_retries \in WhereArgs :
             Where(path, given, max_retries)
             => IF path = None \/ bluestacks_state = CLOSED
                THEN /\ last'.outcome = "returned"
                     /\ last'.ret = None
                     /\ last'.events = <<>>
                     /\ UNCHANGED <<pc, frame, bluestacks_state, available>>
                ELSE /\ last'.outcome = "running"
                     /\ pc' = "element_where"
       /\ pc' = "element_where"
             => /\ frame'.path # None
                /\ bluestacks_state' \in {LOADING, READY}]_vars

\* where() on an element with no image has returned None in state READY
\* without a capture or a match.
C24_Witness ==
    /\ last.op = "where"
    /\ last.outcome = "returned"
    /\ last.ret = None
    /\ last.events = <<>>
    /\ bluestacks_state = READY

\* C25: where() with max_retries > 0, once in its loop, comes to an end.
C25_WhereEnds ==
    (pc = "element_where" /\ frame.max_retries > 0) ~> (pc # "element_where")

\* C26: click(times) that returns True has sent one shell command, of
\* exactly `times` tap commands; click() that does not return True has
\* returned False and sent no tap; click() in a state other than READY
\* returns False at once.
C26_ClickTaps ==
    [][/\ (/\ pc = "element_where"
           /\ frame.caller = "click"
           /\ last'.op = "click"
           /\ last'.outcome = "returned"
           /\ last'.ret = "True")
          => /\ Occurrences(last'.events, "shell:input tap") = 1
             /\ last'.cmds = frame.times
       /\ (/\ last'.op = "click"
           /\ last'.outcome = "returned"
           /\ last'.ret # "True")
          => /\ last'.ret = "False"
             /\ ~Has(last'.events, "shell:input tap")
       /\ (CallOf("click") /\ bluestacks_state # READY)
          => /\ last'.outcome = "returned"
             /\ last'.ret = "False"
             /\ last'.events = <<>>]_vars

\* C27: check_pixel_color(target_color, image, tolerance) on a pixel element
\* that has a position and a colour fails with a ValueError when tolerance
\* is negative, and otherwise returns True exactly when every channel of the
\* pixel at the element's centre is within tolerance of the same channel of
\* the target_color it was given.
C27_PixelColorMatchesArgument ==
    (/\ ui_last.op = "check_pixel_color"
     /\ element.center # Unset
     /\ element.pixel_color # Unset)
    => LET target_color == ui_last.args[1]
           pixel == ui_last.args[2]
           tolerance == ui_last.args[3]
       IN  IF tolerance < 0
           THEN ui_last.outcome = "raised" /\ ui_last.exc = "ValueError"
           ELSE /\ ui_last.outcome = "returned"
                /\ ui_last.ret = <<"True">>
                     <=> \A i \in 1..3 : Abs(pixel[i] - target_color[i]) <= tolerance

\* C28: constructing an element of type pixel succeeds whatever optional
\* arguments it is given, and the element has size (1, 1), no path,
\* is_static true, no confidence, no text, and its centre at its position.
C28_PixelElementFields ==
    (ui_last.op = "__init__" /\ ui_last.args[1] = "pixel")
    => /\ ui_last.outcome = "returned"
       /\ element.built
       /\ element.ele_type = "pixel"
       /\ element.size = <<1, 1>>
       /\ element.path = None
       /\ element.is_static
       /\ element.confidence = None
       /\ element.ele_txt = None
       /\ element.position = ui_last.args[2]
       /\ element.center = element.position

\* A pixel element has been constructed with a position and with a size
\* other than (1, 1).
C28_Witness ==
    /\ ui_last.op = "__init__"
    /\ ui_last.args[1] = "pixel"
    /\ ui_last.args[2] # Unset
    /\ ui_last.args[3] = <<MaxSize, MaxSize>>
    /\ element.built
    /\ element.size = <<1, 1>>

\* C29: constructing an element succeeds; with both its position and its
\* size set its region is (x, y, x + w, y + h), and otherwise its region is
\* unset.
C29_RegionFromPositionAndSize ==
    ui_last.op = "__init__"
    => /\ ui_last.outcome = "returned"
       /\ element.built
       /\ element.region =
             IF element.position # Unset /\ element.size # Unset
             THEN <<element.position[1], element.position[2],
                    element.position[1] + element.size[1],
                    element.position[2] + element.size[2]>>
             ELSE Unset

\* C30: setting ref_window_size to a positive width and height is accepted
\* and stored; setting it with a width or height that is zero or negative
\* raises and leaves the stored value as it was.
C30_RefWindowSizeSet ==
    [][ui_last'.op = "set_ref_window_size"
       => LET width == ui_last'.args[1]
              height == ui_last'.args[2]
          IN  IF width > 0 /\ height > 0
              THEN /\ ui_last'.outcome = "returned"
                   /\ ref_window_size' = <<width, height>>
              ELSE /\ ui_last'.outcome = "raised"
                   /\ ref_window_size' = ref_window_size]_vars

\* C31: open_bluestacks called with a max_retries that is zero or negative
\* on a closed emulator raises a ValueError without launching the executable
\* and without changing the emulator state, the transport or the apps.
C31_OpenRejectsNonPositive ==
    [][\A launch \in LaunchInputs, max_retries \in RetryInputs, seen_at \in AttemptInputs, late_at \in AttemptInputs :
          (/\ pc = "idle"
           /\ max_retries <= 0
           /\ OpenBluestacks(launch, max_retries, seen_at, late_at))
          => /\ last'.outcome = "raised"
             /\ last'.exc = "ValueError"
             /\ ~Has(last'.events, "startfile")
             /\ UNCHANGED <<bluestacks_state, available, running_apps, app_state>>]_vars

\* C32: a step changes running_apps or the state of an App only when it is
\* the successful end of open_app (the append) or of close_app (the filter);
\* kill_bluestacks, open_bluestacks, is_bluestacks_loading, connect_adb,
\* disconnect_adb, is_app_running and the input-injection actions leave both
\* as they were.
C32_OnlyOpenCloseChangeApps ==
    [][(running_apps' # running_apps \/ app_state' # app_state)
       => /\ last'.op \in {"open_app", "close_app"}
          /\ last'.outcome = "returned"
          /\ last'.op = "open_app" => Has(last'.events, "append")
          /\ last'.op = "close_app" => Has(last'.events, "filter")]_vars

\* The emulator has just been killed, and an app is still listed and LOADING.
C32_Witness ==
    /\ last.op = "kill_bluestacks"
    /\ last.ret = "True"
    /\ Has(last.events, "kill")
    /\ bluestacks_state = CLOSED
    /\ Len(running_apps) > 0
    /\ \A i \in 1..Len(running_apps) : app_state[running_apps[i]] = LOADING

\* C33: kill_bluestacks called with the emulator LOADING or READY and no
\* HD-Player.exe process listed returns False, does not call the transport's
\* close(), and leaves the emulator state and the transport as they were.
C33_KillWithoutProcess ==
    [][\A disc \in CloseOutcomes, wait \in {"ok", "raise"} :
          (bluestacks_state \in {LOADING, READY} /\ KillBluestacks(FALSE, disc, wait))
          => /\ last'.op = "kill_bluestacks"
             /\ last'.outcome = "returned"
             /\ last'.ret = "False"
             /\ ~Has(last'.events, "close")
             /\ ~Has(last'.events, "kill")
             /\ UNCHANGED <<bluestacks_state, available>>]_vars

\* kill_bluestacks has found no process while the transport was connected.
C33_Witness ==
    /\ last.op = "kill_bluestacks"
    /\ last.ret = "False"
    /\ last.events = <<"process_iter">>
    /\ bluestacks_state = READY
    /\ available

\* C34: when close_app has set the App's state to CLOSED and filtered it out
\* of running_apps, a window-focus query made after the force-stop returned
\* empty output; a query that raised does not count.
C34_ClosedOnlyAfterEmptyQuery ==
    (last.op = "close_app" /\ Has(last.events, "transition:CLOSED"))
    => /\ Before(last.events, "shell:force-stop", "query:empty")
       /\ Has(last.events, "query:empty")

\* The events of click_elements that say which element is tried, and those
\* that say what its click() returned.
TryEvents == {"try:" \o l : l \in Labels}
ClickResults == {"click:True", "click:False"}

\* C35: click_elements tries the elements in the order of the list, goes on
\* to the next element only after a click() that returned False, stops at the
\* first click() that returned True, so that at most one click() succeeds,
\* and returns True exactly when one did.
C35_ClickElementsFirstSuccess ==
    last.op = "click_elements"
    => LET names == ui_last.args[1]
           tried == SelectSeq(last.events, LAMBDA e : e \in TryEvents)
           results == SelectSeq(last.events, LAMBDA e : e \in ClickResults)
       IN  /\ Len(tried) <= Len(names)
           /\ \A i \in 1..Len(tried) : tried[i] = "try:" \o names[i]
           /\ Occurrences(last.events, "click:True") <= 1
           /\ \A i \in 1..Len(results) : results[i] = "click:True" => i = Len(tried)
           /\ last.cmds <= 1
           /\ last.outcome = "returned"
              => /\ Len(results) = Len(tried)
                 /\ ~Has(last.events, "click:True") => Len(tried) = Len(names)
                 /\ last.ret = "True" <=> Has(last.events, "click:True")
                 /\ last.ret \in {"True", "False"}

\* click_elements has returned True after a first element whose click()
\* returned False and a second whose click() succeeded.
C35_Witness ==
    /\ last.op = "click_elements"
    /\ last.ret = "True"
    /\ Len(ui_last.args[1]) = 2
    /\ Has(last.events, "click:False")
    /\ Before(last.events, "click:False", "click:True")
    /\ last.cmds = 1

C37_AppNeverReady ==
    \A a \in Apps : app_state[a] \in {CLOSED, LOADING}

\* An app has been opened and closed again while the other is still open.
C37_Witness ==
    /\ last.op = "close_app"
    /\ Has(last.events, "transition:CLOSED")
    /\ \E a \in Apps : app_state[a] = LOADING
    /\ \E a \in Apps : app_state[a] = CLOSED

\* C38: with the App objects' state machines left to the controller, an App
\* object is in running_apps exactly when its state is LOADING, and no App
\* object is in running_apps twice.
C38_ListedIffLoading ==
    /\ \A a \in Apps : (\E i \in 1..Len(running_apps) : running_apps[i] = a) <=> app_state[a] = LOADING
    /\ \A i, j \in 1..Len(running_apps) : running_apps[i] = running_apps[j] => i = j

\* open_app on an app that is already open has ended, and the app is listed
\* once.
C38_Witness ==
    /\ last.op = "open_app"
    /\ last.outcome = "raised"
    /\ last.exc = "StateError"
    /\ app_state[last.app] = LOADING
    /\ Occurrences(running_apps, last.app) = 1

\* C39: whenever the emulator state is CLOSED, the transport is not
\* available.
C39_ClosedIsDisconnected ==
    bluestacks_state = CLOSED => ~available

\* C40: when the loop of open_app or close_app has ended on its timeout, the
\* call has returned without raising and has sent at least one launch or
\* force-stop command.
C40_TimeoutAfterACommand ==
    (last.op \in {"open_app", "close_app"} /\ Has(last.events, "timeout"))
    => /\ pc = "idle"
       /\ last.outcome = "returned"
       /\ last.cmds >= 1

====
